---- MODULE Spec2Model ----
(***************************************************************************)
(* State-machine model of the indexing pipeline of the C++ Graph-RAG MCP   *)
(* server: batch_index_files / CodeIndexer.index_file (src/indexer.py),    *)
(* the PostgreSQL schema they write to and the entry points and queries of *)
(* src/server.py.                                                          *)
(*                                                                         *)
(* The store is PostgreSQL in its default READ COMMITTED mode: a           *)
(* transaction's writes are private until COMMIT, every statement outside  *)
(* a transaction commits on its own, foreign keys are checked when a row   *)
(* is inserted, and ON DELETE CASCADE removes the referencing rows.        *)
(* asyncio runs one coroutine at a time and switches only at an await, so  *)
(* every action below is the code between two awaits.                      *)
(***************************************************************************)
EXTENDS Integers, Sequences, FiniteSets, TLC

(***************************************************************************)
(* Bounds of the model.                                                    *)
(***************************************************************************)
NumPaths == 2
MaxFileId == 2
MaxEntityId == 3
MaxRelId == 2
MaxChunkId == 4
\* index_file calls and injected failures (a store call or an embedding that
\* raises) in one behaviour.
MaxCalls == 2
MaxFaults == 1
\* batch_size is 10 in src/indexer.py:187; the model scales it down and the
\* lists of files with it.
batch_size == 2
\* Scopes nested in one another in the sources given to the parser.
MaxDepth == 3
\* Source rows in front of the entity that _create_chunks is given, and how
\* far the entity runs past the 100 lines of one chunk.
MaxPrefix == 3
MaxOver == 2
\* Classes derived from one base class in the stores the dependency trace is
\* run against.
MaxFanIn == 51
\* initial_indexing tasks created in one life of the server, and batches of
\* 50 files one of them goes through.
MaxRuns == 3
MaxBatches == 2

(***************************************************************************)
(* Program constants.                                                      *)
(***************************************************************************)
chunk_size == 100
overlap == 20
MinChunkChars == 50
\* LIMIT 50 of both SELECTs of trace_dependencies
TraceLimit == 50
\* embedding vector(384)
VectorWidth == 384
\* LIMIT 20 of the entities get_context describes, LIMIT 5 of its related code
ContextLimit == 20
RelatedLimit == 5
\* _create_chunks: if len(entity_lines) > 100, entity_lines[:100]
MaxEntityLines == 100
\* range(entity.start_line - 2, max(-1, entity.start_line - 20), -1)
CommentLookback == 20
\* if len(comment_lines) > 2
MinCommentLines == 2
\* entity_code[:200]
SnippetChars == 200

Paths == 1..NumPaths
\* SQL NULL / Python None for an id (SERIAL ids start at 1).
None == 0

(***************************************************************************)
(* File contents.  Tree-sitter is an external library: a content is given  *)
(* by what parse_cpp_file returns for it.                                  *)
(*   cBase     namespace M { class Base { }; }                             *)
(*   cDerived  #include "base.h"                                           *)
(*             class D : public M::Base { int x = f(); };                  *)
(*   cBroken   170 lines of 3 characters on which parse_cpp_file raises    *)
(* A name "A::B" is the sequence <<"A", "B">>; "" is <<>>.                 *)
(***************************************************************************)
Contents == {"cBase", "cDerived", "cBroken"}

\* A file open() raises on (no permission to read it).
Unreadable == "unreadable"

Parses(c) == c # "cBroken"

NumLines(c) == IF c = "cBroken" THEN 170 ELSE 3

LineChars(c) == IF c = "cBroken" THEN 3 ELSE 20

ParsedEntities(c) ==
    CASE c = "cBase" ->
           << [type |-> "class", qualified_name |-> <<"M", "Base">>,
               start_line |-> 1, end_line |-> 1] >>
      [] c = "cDerived" ->
           << [type |-> "class", qualified_name |-> <<"D">>,
               start_line |-> 2, end_line |-> 2] >>
      [] OTHER -> << >>

ParsedRelationships(c) ==
    CASE c = "cDerived" ->
           << [from_entity |-> <<"D">>, to_entity |-> <<"M", "Base">>,
               relationship_type |-> "inherits"],
              [from_entity |-> << >>, to_entity |-> <<"base.h">>,
               relationship_type |-> "includes"],
              [from_entity |-> << >>, to_entity |-> <<"f">>,
               relationship_type |-> "calls"] >>
      [] OTHER -> << >>

\* _create_chunks: one chunk per entity, named after the entity.
ParsedChunks(c) ==
    [k \in 1..Len(ParsedEntities(c)) |->
        [entity_name |-> ParsedEntities(c)[k].qualified_name,
         chunk_type |-> "declaration",
         start_line |-> ParsedEntities(c)[k].start_line,
         end_line |-> ParsedEntities(c)[k].end_line]]

Names ==
    UNION {{ParsedEntities(c)[k].qualified_name : k \in 1..Len(ParsedEntities(c))}
              : c \in Contents}
    \cup UNION {{ParsedRelationships(c)[k].to_entity
                    : k \in 1..Len(ParsedRelationships(c))} : c \in Contents}
    \cup UNION {{ParsedRelationships(c)[k].from_entity
                    : k \in 1..Len(ParsedRelationships(c))} : c \in Contents}

\* name.split("::")[-1]
SimpleName(name) == IF name = << >> THEN "" ELSE name[Len(name)]

\* name.rsplit("::", 1)[0]
ParentName(name) == SubSeq(name, 1, Len(name) - 1)

\* open(path, 'r', encoding='utf-8', errors='ignore').read(): the model's
\* contents are ASCII with LF line ends, which decoding leaves as they are.
Decode(c) == [text |-> c]

\* hashlib.sha256(...).hexdigest(), taken as collision free.
Sha256(bytes) == <<"sha256", bytes>>

\* calculate_file_hash hashes the bytes on disk.
calculate_file_hash(c) == Sha256(c)

\* batch_index_files hashes content.encode() of the decoded text.
content_hash(content) == Sha256(content.text)

(***************************************************************************)
(* _simple_file_indexing: the windows of the fallback path.                *)
(***************************************************************************)
RECURSIVE WindowStarts(_, _)
WindowStarts(i, n) ==
    IF i >= n THEN << >>
    ELSE <<i>> \o WindowStarts(i + (chunk_size - overlap), n)

Window(c, i) ==
    LET n == NumLines(c)
        len == IF i + chunk_size <= n THEN chunk_size ELSE n - i
    IN [start_line |-> i + 1, end_line |-> i + len,
        chars |-> len * LineChars(c) + (len - 1)]

\* No window is too small to store.
WindowKeptAlways(w) == TRUE

WindowKept(w) == w.chars >= MinChunkChars

FallbackWindows(c) ==
    LET starts == WindowStarts(0, NumLines(c))
    IN SelectSeq([k \in 1..Len(starts) |-> Window(c, starts[k])], WindowKept)

VARIABLES
    disk,           \* path -> content of the file on disk, or Unreadable
    files,          \* table files, by path (id = None: no row)
    entities,       \* table entities (committed rows)
    relationships,  \* table relationships (committed rows)
    chunks,         \* table code_chunks (committed rows)
    seqs,           \* the SERIAL sequences (never rolled back)
    run,            \* the batch_index_files call in progress
    tasks,          \* its index_file coroutines of the current batch
    entity_cache,   \* CodeIndexer.entity_cache of the run
    reports,        \* the "Error indexing ..." lines of the run
    outcome,        \* what became of each file of the run
    last,           \* the latest index_file call, when it returned normally
    spent,          \* calls made and failures injected so far
    fs,             \* a find_symbol query in progress
    q               \* another query or parser call, with what it was given

vars == <<disk, files, entities, relationships, chunks, seqs, run, tasks,
          entity_cache, reports, outcome, last, spent, fs, q>>

store == <<files, entities, relationships, chunks, seqs>>

(***************************************************************************)
(* Rows and views of the store.                                            *)
(***************************************************************************)
NoRow == [id |-> None, content_hash |-> << >>, status |-> "", last_indexed |-> FALSE]

NoCall == [path |-> 0, file_id |-> None, content |-> [text |-> ""]]

Ids(rows) == {r.id : r \in rows}

FileRowExists(file_id) == \E p \in Paths : files[p].id = file_id

\* ON DELETE CASCADE through entities.parent_id: what goes when D goes.
RECURSIVE CascadeEntities(_, _)
CascadeEntities(E, D) ==
    LET more == {e.id : e \in {x \in E : x.parent_id \in D}} \ D
    IN IF more = {} THEN D ELSE CascadeEntities(E, D \cup more)

\* ON DELETE CASCADE of relationships.from_entity_id / to_entity_id.
RelationshipsLeft(R, D) ==
    {r \in R : r.from_entity_id \notin D /\ r.to_entity_id \notin D}

\* ON DELETE CASCADE of code_chunks.entity_id.
ChunksLeft(C, D) == {c \in C : c.entity_id \notin D}

\* What the store holds for one file: its entities, the relationships that
\* start at them, and its chunks.
FileSetOf(E, R, C, file_id) ==
    LET own == {e \in E : e.file_id = file_id}
    IN [entities |-> own,
        relationships |-> {r \in R : r.from_entity_id \in Ids(own)},
        chunks |-> {c \in C : c.file_id = file_id}]

FileSet(file_id) == FileSetOf(entities, relationships, chunks, file_id)

EmptyFileSet == [entities |-> {}, relationships |-> {}, chunks |-> {}]

\* A bag of rows with the generated ids taken out: keyed holds, for each row,
\* the pair of its id and the rest of it.
BagOf(keyed) ==
    [x \in {p[2] : p \in keyed} |-> Cardinality({p \in keyed : p[2] = x})]

EntityOfId(E, id) == CHOOSE e \in E : e.id = id

NameOfId(E, id) ==
    IF id \in Ids(E)
    THEN <<EntityOfId(E, id).file_id, EntityOfId(E, id).qualified_name>>
    ELSE << >>

\* A file's set compared up to generated ids.
NormFileSetOf(E, R, C, file_id) ==
    LET s == FileSetOf(E, R, C, file_id)
        StripE(e) == <<e.type, e.qualified_name, NameOfId(E, e.parent_id)>>
        StripR(r) == <<NameOfId(E, r.from_entity_id), NameOfId(E, r.to_entity_id),
                       r.relationship_type>>
        StripC(c) == <<NameOfId(E, c.entity_id), c.chunk_type, c.start_line,
                       c.end_line>>
    IN [entities |-> BagOf({<<e.id, StripE(e)>> : e \in s.entities}),
        relationships |-> BagOf({<<r.id, StripR(r)>> : r \in s.relationships}),
        chunks |-> BagOf({<<c.id, StripC(c)>> : c \in s.chunks})]

(***************************************************************************)
(* The index_file coroutines of the batch.                                 *)
(***************************************************************************)
NoMap == [n \in Names |-> None]

\* map[name] if name in map else None
Lookup(map, name) == IF name \in DOMAIN map THEN map[name] ELSE None

NewTask(path, file_id, content, unchanged) ==
    [path |-> path, file_id |-> file_id, content |-> content,
     unchanged |-> unchanged, pc |-> "new", k |-> 1, entity_map |-> NoMap,
     delE |-> {}, insE |-> {}, insR |-> {}, insC |-> {},
     pre |-> EmptyFileSet, norm_pre |-> << >>, again |-> FALSE, error |-> ""]

TaskIds == DOMAIN tasks

\* Between BEGIN and COMMIT/ROLLBACK of conn.transaction().
TxPcs == {"ent", "par", "rel", "chk", "commit"}

InTx(t) == tasks[t].pc \in TxPcs

Ended(t) == tasks[t].pc \in {"done", "failed"}

\* Entities of other files a transaction's relationship rows point to: the
\* foreign-key check holds a key-share lock on them until the transaction ends.
ForeignRefs(t) ==
    {r.from_entity_id : r \in tasks[t].insR} \cup {r.to_entity_id : r \in tasks[t].insR}

LockedEntities(t) == tasks[t].delE \cup (ForeignRefs(t) \ Ids(tasks[t].insE))

\* An inserted entity or chunk row key-share locks its files row.
HoldsFileRow(t) == tasks[t].insE # {} \/ tasks[t].insC # {}

\* Entities a statement of transaction t sees.
VisibleEntities(t) ==
    {e \in entities : e.id \notin tasks[t].delE} \cup tasks[t].insE

\* A store without the foreign keys on relationships and code_chunks: any id
\* is accepted.
FkEntityUnchecked(t, id) == "ok"

\* REFERENCES entities(id), checked at INSERT: "ok", "wait" (the row is being
\* deleted by a transaction still open) or "violation".
FkEntity(t, id) ==
    IF id = None \/ id \in Ids(tasks[t].insE) THEN "ok"
    ELSE IF id \in Ids(entities) /\ id \notin tasks[t].delE
         THEN IF \E u \in TaskIds \ {t} : InTx(u) /\ id \in tasks[u].delE
              THEN "wait" ELSE "ok"
         ELSE "violation"

\* REFERENCES files(id), checked at INSERT.
FkFile(file_id) == IF FileRowExists(file_id) THEN "ok" ELSE "violation"

\* No other query or parser call yet.
NoOp == [op |-> "none", pc |-> "done"]

NoQuery ==
    [pc |-> "idle", symbol |-> "", entity_id |-> None, code |-> None,
     usages |-> {}, first |-> << >>, final |-> << >>]

Init ==
    /\ disk \in [Paths -> Contents \cup {Unreadable}]
    /\ files = [p \in Paths |-> NoRow]
    /\ entities = {}
    /\ relationships = {}
    /\ chunks = {}
    /\ seqs = [file |-> 0, entity |-> 0, rel |-> 0, chunk |-> 0]
    /\ run = [pc |-> "idle", entry |-> "", file_paths |-> << >>, i |-> 0, j |-> 1]
    /\ tasks = << >>
    /\ entity_cache = NoMap
    /\ reports = << >>
    /\ outcome = [p \in Paths |-> "none"]
    /\ last = NoCall
    /\ spent = [calls |-> 0, faults |-> 0]
    /\ fs = NoQuery
    /\ q = NoOp

(***************************************************************************)
(* The entry points (src/server.py) and batch_index_files.                 *)
(***************************************************************************)
\* Lists of files as rglob yields them for some monitored directories.
RECURSIVE PathListsFrom(_)
PathListsFrom(p) ==
    IF p > NumPaths THEN {<< >>}
    ELSE PathListsFrom(p + 1) \cup {<<p>> \o l : l \in PathListsFrom(p + 1)}

PathLists == PathListsFrom(1) \ {<< >>}

SinglePathLists == {<<p>> : p \in Paths}

\* The same for any monitoring_paths: the files of each base_path are added
\* one directory after the other, so a directory listed twice, or listed with
\* one that contains it, has its files in the list twice.
MonitoredLists == PathLists \cup {l \o m : l \in PathLists, m \in PathLists}

RunOver == run.pc \in {"idle", "returned", "raised"}

\* batch = file_paths[i:i + batch_size]
Batch ==
    SubSeq(run.file_paths, run.i + 1,
           IF run.i + batch_size <= Len(run.file_paths)
           THEN run.i + batch_size ELSE Len(run.file_paths))

StartRun(entry, file_paths) ==
    /\ run' = [pc |-> "loop", entry |-> entry, file_paths |-> file_paths,
               i |-> 0, j |-> 1]
    /\ tasks' = << >>
    /\ entity_cache' = NoMap
    /\ reports' = << >>
    /\ outcome' = [p \in Paths |-> "none"]

\* check_for_changes: a file is taken when it has no row or another hash.  A
\* file calculate_file_hash cannot open ends the cycle before any indexing.
IsChanged(p) ==
    files[p].id = None \/ files[p].content_hash # calculate_file_hash(disk[p])

check_for_changes(lists) ==
    /\ RunOver
    /\ \E l \in lists :
          LET changed_files == SelectSeq(l, IsChanged)
          IN /\ \A n \in 1..Len(l) : disk[l[n]] # Unreadable
             /\ changed_files # << >>
             /\ StartRun("check_for_changes", changed_files)
    /\ UNCHANGED <<disk, store, last, spent, fs, q>>

\* initial_indexing (startup, /api/reindex, the directories update): every file
\* found, in batches of 50, which is one batch_index_files call here.
initial_indexing(lists) ==
    /\ RunOver
    /\ \E l \in lists : StartRun("initial_indexing", l)
    /\ UNCHANGED <<disk, store, last, spent, fs, q>>

\* After the body of "for file_path in batch" for batch[j].
AfterFile ==
    IF run.j < Len(Batch) THEN [run EXCEPT !.j = @ + 1]
    ELSE [run EXCEPT !.pc = "gather"]

\* open(file_path) raises: the file is skipped.
ReadFails ==
    /\ run.pc = "loop"
    /\ disk[Batch[run.j]] = Unreadable
    /\ run' = AfterFile
    /\ outcome' = [outcome EXCEPT ![Batch[run.j]] = "unreadable"]
    /\ UNCHANGED <<disk, store, tasks, entity_cache, reports, last, spent, fs, q>>

\* INSERT INTO files ... ON CONFLICT (path) DO UPDATE ... RETURNING id
UpsertFile(p, hash) ==
    IF files[p].id = None
    THEN [files EXCEPT ![p] = [id |-> seqs.file + 1, content_hash |-> hash,
                               status |-> "indexing", last_indexed |-> FALSE]]
    ELSE [files EXCEPT ![p].content_hash = hash, ![p].status = "indexing"]

\* The file is read, its row upserted and its index_file coroutine created.
CreateTask ==
    /\ run.pc = "loop"
    /\ disk[Batch[run.j]] # Unreadable
    /\ spent.calls < MaxCalls
    /\ spent' = [spent EXCEPT !.calls = @ + 1]
    /\ LET p == Batch[run.j]
           content == Decode(disk[p])
           unchanged == files[p].id # None
                        /\ files[p].content_hash = content_hash(content)
       IN /\ files[p].id = None => seqs.file < MaxFileId
          /\ files' = UpsertFile(p, content_hash(content))
          /\ seqs' = IF files[p].id = None THEN [seqs EXCEPT !.file = @ + 1] ELSE seqs
          /\ tasks' = Append(tasks, NewTask(p, files'[p].id, content, unchanged))
    /\ run' = AfterFile
    /\ UNCHANGED <<disk, entities, relationships, chunks, entity_cache, reports,
                   outcome, last, fs, q>>

\* The upsert (or file_path.stat()) raises: nothing catches it, and the
\* exception leaves batch_index_files.
UpsertRaises ==
    /\ run.pc = "loop"
    /\ disk[Batch[run.j]] # Unreadable
    /\ spent.faults < MaxFaults
    /\ spent' = [spent EXCEPT !.faults = @ + 1]
    /\ run' = [run EXCEPT !.pc = "raised"]
    /\ outcome' = [outcome EXCEPT ![Batch[run.j]] = "record_failed"]
    /\ tasks' = << >>
    /\ entity_cache' = NoMap
    /\ UNCHANGED <<disk, store, reports, last, fs, q>>

\* for i, result in enumerate(results): the path printed is batch[i].
ReportsOf(batch, results) ==
    LET failed == SelectSeq([i \in 1..Len(results) |-> i],
                            LAMBDA i : results[i].pc = "failed")
    IN [n \in 1..Len(failed) |->
          [named |-> batch[failed[n]], actual |-> results[failed[n]].path]]

\* asyncio.gather returned: the failures are printed, the next batch starts.
FinishBatch ==
    /\ run.pc = "gather"
    /\ \A t \in TaskIds : Ended(t)
    /\ reports' = reports \o ReportsOf(Batch, tasks)
    /\ outcome' = [p \in Paths |->
                     IF \E t \in TaskIds : tasks[t].path = p
                     THEN LET t == CHOOSE t \in TaskIds : tasks[t].path = p
                          IN IF tasks[t].pc = "done" THEN "indexed" ELSE "index_failed"
                     ELSE outcome[p]]
    /\ run' = IF run.i + batch_size < Len(run.file_paths)
              THEN [run EXCEPT !.i = @ + batch_size, !.j = 1, !.pc = "loop"]
              ELSE [run EXCEPT !.pc = "returned"]
    /\ tasks' = << >>
    /\ entity_cache' = IF run'.pc = "returned" THEN NoMap ELSE entity_cache
    /\ UNCHANGED <<disk, store, last, spent, fs, q>>

(***************************************************************************)
(* CodeIndexer.index_file, one action per await.                           *)
(***************************************************************************)
AfterRelationships(c) == IF Len(ParsedChunks(c)) > 0 THEN "chk" ELSE "commit"

AfterParents(c) ==
    IF Len(ParsedRelationships(c)) > 0 THEN "rel" ELSE AfterRelationships(c)

AfterDelete(c) == IF Len(ParsedEntities(c)) > 0 THEN "ent" ELSE AfterParents(c)

\* The call returned normally.
CallDone(t) ==
    [path |-> tasks[t].path, file_id |-> tasks[t].file_id,
     content |-> tasks[t].content]

CallFailed == NoCall

\* The exception leaves "async with conn.transaction()": ROLLBACK.
Rollback(task, error) ==
    [task EXCEPT !.pc = "failed", !.error = error, !.delE = {}, !.insE = {},
                 !.insR = {}, !.insC = {}]

\* index_file up to its first await: parse, or fall back on a parse error.
Parse(t) ==
    /\ run.pc = "gather"
    /\ tasks[t].pc = "new"
    /\ LET c == tasks[t].content.text
           next == IF Parses(c) THEN "del"
                   ELSE IF FallbackWindows(c) = << >> THEN "done" ELSE "fb"
       IN /\ tasks' = [tasks EXCEPT
                ![t].pc = next, ![t].k = 1,
                ![t].pre = FileSet(tasks[t].file_id),
                ![t].norm_pre = NormFileSetOf(entities, relationships, chunks,
                                              tasks[t].file_id),
                ![t].again = (last = CallDone(t))]
          /\ last' = IF next = "done" THEN CallDone(t) ELSE last
    /\ UNCHANGED <<disk, store, run, entity_cache, reports, outcome, spent, fs, q>>

\* BEGIN; DELETE FROM entities WHERE file_id = $1.  The statement waits while
\* another open transaction holds a lock on a row it deletes.
DeleteOld(t) ==
    /\ run.pc = "gather"
    /\ tasks[t].pc = "del"
    /\ LET D == CascadeEntities(entities,
                   {e.id : e \in {x \in entities : x.file_id = tasks[t].file_id}})
       IN /\ \A u \in TaskIds \ {t} : InTx(u) => LockedEntities(u) \cap D = {}
          /\ tasks' = [tasks EXCEPT ![t].delE = D, ![t].k = 1,
                                    ![t].pc = AfterDelete(tasks[t].content.text)]
    /\ UNCHANGED <<disk, store, run, entity_cache, reports, outcome, last, spent, fs, q>>

\* _insert_entity for entities[k], then entity_map and entity_cache.
InsertEntity(t) ==
    /\ run.pc = "gather"
    /\ tasks[t].pc = "ent"
    /\ seqs.entity < MaxEntityId
    /\ LET c == tasks[t].content.text
           e == ParsedEntities(c)[tasks[t].k]
           id == seqs.entity + 1
           row == [id |-> id, file_id |-> tasks[t].file_id, type |-> e.type,
                   qualified_name |-> e.qualified_name,
                   simple_name |-> SimpleName(e.qualified_name),
                   parent_id |-> None]
       IN /\ seqs' = [seqs EXCEPT !.entity = id]
          /\ IF FkFile(tasks[t].file_id) = "ok"
             THEN /\ tasks' = [tasks EXCEPT
                        ![t].insE = @ \cup {row},
                        ![t].entity_map = [@ EXCEPT ![e.qualified_name] = id],
                        ![t].k = IF @ < Len(ParsedEntities(c)) THEN @ + 1 ELSE 1,
                        ![t].pc = IF tasks[t].k < Len(ParsedEntities(c))
                                  THEN "ent" ELSE "par"]
                  /\ entity_cache' = [entity_cache EXCEPT ![e.qualified_name] = id]
                  /\ last' = last
             ELSE /\ tasks' = [tasks EXCEPT ![t] = Rollback(@, "fk_violation")]
                  /\ entity_cache' = entity_cache
                  /\ last' = CallFailed
    /\ UNCHANGED <<disk, files, entities, relationships, chunks, run, reports,
                   outcome, spent, fs, q>>

\* The parent pass with the run-wide cache asked when the file's own map does
\* not have the parent name.
WithParentsFromCache(task) ==
    LET map == task.entity_map
        parentOf(e) ==
            IF Lookup(map, ParentName(e.qualified_name)) # None
            THEN map[ParentName(e.qualified_name)]
            ELSE Lookup(entity_cache, ParentName(e.qualified_name))
    IN {IF Len(e.qualified_name) > 1 /\ Lookup(map, e.qualified_name) = e.id
        THEN [e EXCEPT !.parent_id = parentOf(e)]
        ELSE e : e \in task.insE}

\* "Resolve parent relationships": UPDATE entities SET parent_id = ... for every
\* entity whose name has a "::" and whose parent name is in entity_map.
WithParents(task) ==
    LET map == task.entity_map
        hasParent(e) == /\ Len(e.qualified_name) > 1
                        /\ Lookup(map, ParentName(e.qualified_name)) # None
                        /\ Lookup(map, e.qualified_name) = e.id
    IN {IF hasParent(e)
        THEN [e EXCEPT !.parent_id = map[ParentName(e.qualified_name)]]
        ELSE e : e \in task.insE}

ResolveParents(t) ==
    /\ run.pc = "gather"
    /\ tasks[t].pc = "par"
    /\ tasks' = [tasks EXCEPT ![t].insE = WithParents(tasks[t]), ![t].k = 1,
                              ![t].pc = AfterParents(tasks[t].content.text)]
    /\ UNCHANGED <<disk, store, run, entity_cache, reports, outcome, last, spent, fs, q>>

(***************************************************************************)
(* CodeIndexer._insert_relationship                                        *)
(***************************************************************************)
\* "Resolve from_entity": the file-scoped map, then the cache.
ResolveFrom(t, rel) ==
    IF Lookup(tasks[t].entity_map, rel.from_entity) # None
    THEN Lookup(tasks[t].entity_map, rel.from_entity)
    ELSE Lookup(entity_cache, rel.from_entity)

\* SELECT id FROM entities WHERE simple_name = $1 LIMIT 1: any matching row
\* the transaction sees, NULL when there is none.
BySimpleName(t, simple_name) ==
    LET found == {e.id : e \in {x \in VisibleEntities(t) : x.simple_name = simple_name}}
    IN IF found = {} THEN {None} ELSE found

\* The same with the cache asked before the file's own map.
ResolveToCacheFirst(t, rel) ==
    IF Lookup(entity_cache, rel.to_entity) # None
    THEN {Lookup(entity_cache, rel.to_entity)}
    ELSE IF Lookup(tasks[t].entity_map, rel.to_entity) # None
         THEN {Lookup(tasks[t].entity_map, rel.to_entity)}
         ELSE BySimpleName(t, SimpleName(rel.to_entity))

\* "Resolve to_entity": the map, then the cache, then the store by the
\* trailing identifier.  The ids the lookup may give.
ResolveTo(t, rel) ==
    IF Lookup(tasks[t].entity_map, rel.to_entity) # None
    THEN {Lookup(tasks[t].entity_map, rel.to_entity)}
    ELSE IF Lookup(entity_cache, rel.to_entity) # None
         THEN {Lookup(entity_cache, rel.to_entity)}
         ELSE BySimpleName(t, SimpleName(rel.to_entity))

\* The guard without its second half: a row is written as soon as the
\* 'from' side is known.
BothResolvedFromOnly(from_id, to_id) == from_id # None

\* No guard at all: every edge that is not an include is written.
BothResolvedAlways(from_id, to_id) == TRUE

\* "Only insert if we could resolve both entities"
BothResolved(from_id, to_id) == from_id # None /\ to_id # None

\* The foreign keys of a relationships row.
FkRelationship(t, from_id, to_id) ==
    IF "violation" \in {FkEntity(t, from_id), FkEntity(t, to_id)} THEN "violation"
    ELSE IF "wait" \in {FkEntity(t, from_id), FkEntity(t, to_id)} THEN "wait"
         ELSE "ok"

AfterRel(t) ==
    IF tasks[t].k < Len(ParsedRelationships(tasks[t].content.text))
    THEN [tasks EXCEPT ![t].k = @ + 1]
    ELSE [tasks EXCEPT ![t].k = 1,
                       ![t].pc = AfterRelationships(tasks[t].content.text)]

InsertRelationship(t) ==
    /\ run.pc = "gather"
    /\ tasks[t].pc = "rel"
    /\ LET rel == ParsedRelationships(tasks[t].content.text)[tasks[t].k]
           from_id == ResolveFrom(t, rel)
       IN IF rel.relationship_type = "includes"
          THEN tasks' = AfterRel(t) /\ UNCHANGED <<seqs, last>>
          ELSE \E to_id \in ResolveTo(t, rel) :
                 IF BothResolved(from_id, to_id)
                 THEN /\ seqs.rel < MaxRelId
                      /\ FkRelationship(t, from_id, to_id) # "wait"
                      /\ seqs' = [seqs EXCEPT !.rel = @ + 1]
                      /\ IF FkRelationship(t, from_id, to_id) = "ok"
                         THEN /\ tasks' = [AfterRel(t) EXCEPT ![t].insR = @ \cup
                                    {[id |-> seqs.rel + 1,
                                      from_entity_id |-> from_id,
                                      to_entity_id |-> to_id,
                                      relationship_type |-> rel.relationship_type]}]
                              /\ last' = last
                         ELSE /\ tasks' = [tasks EXCEPT
                                              ![t] = Rollback(@, "fk_violation")]
                              /\ last' = CallFailed
                 ELSE tasks' = AfterRel(t) /\ UNCHANGED <<seqs, last>>
    /\ UNCHANGED <<disk, files, entities, relationships, chunks, run,
                   entity_cache, reports, outcome, spent, fs, q>>

\* A vector another embedding model would give.
OtherWidth == 2 * VectorWidth

\* embedding_model.encode(...).tolist(): the width of what comes back, the
\* store's or, as an injected failure, another.
EncodedWidths ==
    IF spent.faults < MaxFaults THEN {VectorWidth, OtherWidth} ELSE {VectorWidth}

\* A column that takes a vector of any width.
VectorFitsAny(width) == TRUE

\* $n::vector into a column vector(384): a vector of another width is an
\* error.
VectorFits(width) == width = VectorWidth

\* _insert_chunk for chunks[k]: the embedding, then the INSERT.
InsertChunk(t) ==
    /\ run.pc = "gather"
    /\ tasks[t].pc = "chk"
    /\ seqs.chunk < MaxChunkId
    /\ \E width \in EncodedWidths :
        LET c == tasks[t].content.text
            chunk == ParsedChunks(c)[tasks[t].k]
            entity_id == IF chunk.entity_name # << >>
                         THEN Lookup(tasks[t].entity_map, chunk.entity_name) ELSE None
            row == [id |-> seqs.chunk + 1, entity_id |-> entity_id,
                    file_id |-> tasks[t].file_id, chunk_type |-> chunk.chunk_type,
                    start_line |-> chunk.start_line, end_line |-> chunk.end_line,
                    embedding |-> width]
        IN /\ spent' = IF width = VectorWidth THEN spent
                       ELSE [spent EXCEPT !.faults = @ + 1]
           /\ IF ~VectorFits(width)
              THEN /\ seqs' = seqs
                   /\ tasks' = [tasks EXCEPT ![t] = Rollback(@, "dimension")]
                   /\ last' = CallFailed
              ELSE /\ seqs' = [seqs EXCEPT !.chunk = @ + 1]
                   /\ IF FkFile(tasks[t].file_id) = "ok" /\ FkEntity(t, entity_id) = "ok"
                      THEN /\ tasks' = [tasks EXCEPT
                                 ![t].insC = @ \cup {row},
                                 ![t].k = IF @ < Len(ParsedChunks(c)) THEN @ + 1 ELSE 1,
                                 ![t].pc = IF tasks[t].k < Len(ParsedChunks(c))
                                           THEN "chk" ELSE "commit"]
                           /\ last' = last
                      ELSE /\ tasks' = [tasks EXCEPT ![t] = Rollback(@, "fk_violation")]
                           /\ last' = CallFailed
    /\ UNCHANGED <<disk, files, entities, relationships, chunks, run,
                   entity_cache, reports, outcome, fs, q>>

\* UPDATE files SET status = 'indexed' ...; COMMIT.
Commit(t) ==
    /\ run.pc = "gather"
    /\ tasks[t].pc = "commit"
    /\ entities' = {e \in entities : e.id \notin tasks[t].delE} \cup tasks[t].insE
    /\ relationships' = RelationshipsLeft(relationships, tasks[t].delE)
                           \cup tasks[t].insR
    /\ chunks' = ChunksLeft(chunks, tasks[t].delE) \cup tasks[t].insC
    /\ files' = [p \in Paths |->
                   IF files[p].id = tasks[t].file_id
                   THEN [files[p] EXCEPT !.status = "indexed", !.last_indexed = TRUE]
                   ELSE files[p]]
    /\ tasks' = [tasks EXCEPT ![t].pc = "done"]
    /\ last' = CallDone(t)
    /\ UNCHANGED <<disk, seqs, run, entity_cache, reports, outcome, spent, fs, q>>

\* _simple_file_indexing: the embedding and the INSERT of one kept window,
\* outside any transaction.
FallbackChunk(t) ==
    /\ run.pc = "gather"
    /\ tasks[t].pc = "fb"
    /\ seqs.chunk < MaxChunkId
    /\ \E width \in EncodedWidths :
        LET windows == FallbackWindows(tasks[t].content.text)
            w == windows[tasks[t].k]
            row == [id |-> seqs.chunk + 1, entity_id |-> None,
                    file_id |-> tasks[t].file_id, chunk_type |-> "mixed",
                    start_line |-> w.start_line, end_line |-> w.end_line,
                    embedding |-> width]
            finished == tasks[t].k = Len(windows)
        IN /\ spent' = IF width = VectorWidth THEN spent
                       ELSE [spent EXCEPT !.faults = @ + 1]
           /\ IF ~VectorFits(width)
              THEN /\ seqs' = seqs
                   /\ chunks' = chunks
                   /\ tasks' = [tasks EXCEPT ![t].pc = "failed",
                                             ![t].error = "dimension"]
                   /\ last' = CallFailed
              ELSE /\ seqs' = [seqs EXCEPT !.chunk = @ + 1]
                   /\ IF FkFile(tasks[t].file_id) = "ok"
                      THEN /\ chunks' = chunks \cup {row}
                           /\ tasks' = [tasks EXCEPT
                                 ![t].insC = @ \cup {row},
                                 ![t].k = IF finished THEN 1 ELSE @ + 1,
                                 ![t].pc = IF finished THEN "done" ELSE "fb"]
                           /\ last' = IF finished THEN CallDone(t) ELSE last
                      ELSE /\ chunks' = chunks
                           /\ tasks' = [tasks EXCEPT ![t].pc = "failed",
                                                     ![t].error = "fk_violation"]
                           /\ last' = CallFailed
    /\ UNCHANGED <<disk, files, entities, relationships, run, entity_cache,
                   reports, outcome, fs, q>>

\* A store call or embedding_model.encode raises.  Inside the transaction the
\* writes are rolled back; on the fallback path there is nothing to roll back.
TaskFails(t) ==
    /\ run.pc = "gather"
    /\ tasks[t].pc \in TxPcs \cup {"del", "fb"}
    /\ spent.faults < MaxFaults
    /\ spent' = [spent EXCEPT !.faults = @ + 1]
    /\ tasks' = [tasks EXCEPT ![t] =
                    IF tasks[t].pc = "fb"
                    THEN [@ EXCEPT !.pc = "failed", !.error = "error"]
                    ELSE Rollback(@, "error")]
    /\ last' = CallFailed
    /\ UNCHANGED <<disk, store, run, entity_cache, reports, outcome, fs, q>>

(***************************************************************************)
(* The environment: the files change on disk, DELETE /api/directories.     *)
(***************************************************************************)
EditFile ==
    /\ RunOver
    /\ \E p \in Paths, c \in Contents \cup {Unreadable} :
          /\ c # disk[p]
          /\ disk' = [disk EXCEPT ![p] = c]
    /\ UNCHANGED <<store, run, tasks, entity_cache, reports, outcome, last, spent, fs, q>>

\* The sets of paths one prefix covers: one file, or the directory of all.
Prefixes == {{p} : p \in Paths} \cup {Paths}

\* delete_directory_data: DELETE FROM files WHERE path LIKE $1 || '%', with its
\* cascades.  The statement waits while an open transaction holds a lock on a
\* row it deletes.
delete_directory_data ==
    \E covered \in Prefixes :
       LET gone == {files[p].id : p \in covered} \ {None}
           D == CascadeEntities(entities,
                   {e.id : e \in {x \in entities : x.file_id \in gone}})
       IN /\ gone # {}
          /\ \A t \in TaskIds :
                InTx(t) => /\ LockedEntities(t) \cap D = {}
                           /\ ~(HoldsFileRow(t) /\ tasks[t].file_id \in gone)
          /\ files' = [p \in Paths |-> IF p \in covered THEN NoRow ELSE files[p]]
          /\ entities' = {e \in entities : e.id \notin D}
          /\ relationships' = RelationshipsLeft(relationships, D)
          /\ chunks' = {c \in ChunksLeft(chunks, D) : c.file_id \notin gone}
          /\ last' = CallFailed
          /\ UNCHANGED <<disk, seqs, run, tasks, entity_cache, reports, outcome,
                         spent, fs, q>>

(***************************************************************************)
(* find_symbol (src/server.py): three SELECTs on one connection, outside   *)
(* any transaction.                                                        *)
(***************************************************************************)
Symbols == {"Base", "D"}

\* WHERE e.qualified_name LIKE '%symbol%' OR e.simple_name = symbol, for the
\* whole identifiers of Symbols.
Matches(e, symbol) ==
    \/ \E n \in 1..Len(e.qualified_name) : e.qualified_name[n] = symbol
    \/ e.simple_name = symbol

\* SELECT content FROM code_chunks WHERE entity_id = $1 ORDER BY start_line
\* LIMIT 1: the chunks it may give, None when there is no row.
CodeOf(C, entity_id) ==
    LET rows == {c \in C : c.entity_id = entity_id}
        firsts == {c \in rows : \A d \in rows : c.start_line <= d.start_line}
    IN IF rows = {} THEN {None} ELSE Ids(firsts)

\* SELECT ... FROM relationships r JOIN entities e ON r.from_entity_id = e.id
\* WHERE r.to_entity_id = $1
UsagesOf(R, E, entity_id) ==
    Ids({r \in R : r.to_entity_id = entity_id /\ r.from_entity_id \in Ids(E)})

\* What one consistent read of the store gives for the entity.
ViewOf(E, R, C, entity_id) ==
    [exists |-> entity_id \in Ids(E), code |-> CodeOf(C, entity_id),
     usages |-> UsagesOf(R, E, entity_id)]

FindSymbolEntities ==
    /\ fs.pc \in {"idle", "done"}
    /\ \E symbol \in Symbols :
          LET found == {e \in entities : Matches(e, symbol)}
          IN IF found = {}
             THEN fs' = [NoQuery EXCEPT !.pc = "done", !.symbol = symbol]
             ELSE \E e \in found :
                    fs' = [NoQuery EXCEPT
                             !.pc = "code", !.symbol = symbol, !.entity_id = e.id,
                             !.first = ViewOf(entities, relationships, chunks, e.id)]
    /\ UNCHANGED <<disk, store, run, tasks, entity_cache, reports, outcome, last, spent, q>>

FindSymbolCode ==
    /\ fs.pc = "code"
    /\ \E code \in CodeOf(chunks, fs.entity_id) :
          fs' = [fs EXCEPT !.pc = "usages", !.code = code]
    /\ UNCHANGED <<disk, store, run, tasks, entity_cache, reports, outcome, last, spent, q>>

FindSymbolUsages ==
    /\ fs.pc = "usages"
    /\ fs' = [fs EXCEPT
                !.pc = "done",
                !.usages = UsagesOf(relationships, entities, fs.entity_id),
                !.final = ViewOf(entities, relationships, chunks, fs.entity_id)]
    /\ UNCHANGED <<disk, store, run, tasks, entity_cache, reports, outcome, last, spent, q>>

(***************************************************************************)
(* trace_dependencies (src/server.py), run against a store at rest: a base *)
(* class with its derived classes, as indexing leaves them.                *)
(***************************************************************************)
\* The rest of the state when only queries run: no indexing in progress.
AtRest ==
    /\ disk = [p \in Paths |-> "cBase"]
    /\ run = [pc |-> "idle", entry |-> "", file_paths |-> << >>, i |-> 0, j |-> 1]
    /\ tasks = << >>
    /\ entity_cache = NoMap
    /\ reports = << >>
    /\ outcome = [p \in Paths |-> "none"]
    /\ last = NoCall
    /\ spent = [calls |-> 0, faults |-> 0]
    /\ fs = NoQuery

IndexedFiles ==
    [p \in Paths |-> [id |-> p, content_hash |-> content_hash(Decode("cBase")),
                      status |-> "indexed", last_indexed |-> TRUE]]

ClassRow(id, file_id, name) ==
    [id |-> id, file_id |-> file_id, type |-> "class", qualified_name |-> <<name>>,
     simple_name |-> name, parent_id |-> None]

\* Root, Base and Other in file 1; classes D1 .. Dn in file 2.
TraceEntities(n) ==
    {ClassRow(1, 1, "Root"), ClassRow(2, 1, "Base"), ClassRow(3, 1, "Other")}
        \cup {ClassRow(3 + k, 2, "D" \o ToString(k)) : k \in 1..n}

InheritsRow(id, from_id, to_id) ==
    [id |-> id, from_entity_id |-> from_id, to_entity_id |-> to_id,
     relationship_type |-> "inherits"]

\* Every Dk inherits Base; Base may inherit Root, and D1 may inherit Other
\* as well.
TraceRelationships(n, up, side) ==
    {InheritsRow(k, 3 + k, 2) : k \in 1..n}
        \cup (IF up THEN {InheritsRow(n + 1, 2, 1)} ELSE {})
        \cup (IF side /\ n > 0 THEN {InheritsRow(n + 2, 4, 3)} ELSE {})

InitTrace ==
    /\ AtRest
    /\ q = NoOp
    /\ files = IndexedFiles
    /\ chunks = {}
    /\ \E n \in 0..MaxFanIn, up \in BOOLEAN, side \in BOOLEAN :
          /\ entities = TraceEntities(n)
          /\ relationships = TraceRelationships(n, up, side)
          /\ seqs = [file |-> NumPaths, entity |-> 3 + n, rel |-> n + 2, chunk |-> 0]

TraceTargets == {"Base", "Root", "Missing"}
TraceDirections == {"outgoing", "incoming", "both"}
TraceDepths == {1, 2}
TraceKinds == {{"calls", "inherits", "includes"}, {"inherits"}, {"calls"}}

RECURSIVE Drop(_, _)
\* The ways to leave k rows out of a result.
Drop(rows, k) ==
    IF k = 0 THEN {rows} ELSE UNION {Drop(rows \ {x}, k - 1) : x \in rows}

\* LIMIT n without ORDER BY: all the rows when there are at most n, any n of
\* them otherwise.
Limited(rows, n) ==
    IF Cardinality(rows) <= n THEN {rows} ELSE Drop(rows, Cardinality(rows) - n)

\* f.path ... JOIN files f ON e.file_id = f.id
PathOfFile(F, file_id) == CHOOSE p \in Paths : F[p].id = file_id

\* One row of SELECT DISTINCT e.qualified_name, e.type, r.relationship_type,
\* f.path
TraceRow(F, e, r) ==
    [name |-> e.qualified_name, type |-> e.type,
     relationship |-> r.relationship_type, file |-> PathOfFile(F, e.file_id)]

\* ... JOIN entities e ON r.to_entity_id = e.id JOIN files f ...
\* WHERE r.from_entity_id = $1 AND r.relationship_type = ANY($2)
OutgoingRows(F, E, R, entity_id, relationship_types) ==
    {TraceRow(F, e, r) : <<e, r>> \in
        {x \in E \X R : /\ x[2].to_entity_id = x[1].id
                        /\ \E p \in Paths : F[p].id = x[1].file_id
                        /\ x[2].from_entity_id = entity_id
                        /\ x[2].relationship_type \in relationship_types}}

\* ... JOIN entities e ON r.from_entity_id = e.id JOIN files f ...
\* WHERE r.to_entity_id = $1 AND r.relationship_type = ANY($2)
IncomingRows(F, E, R, entity_id, relationship_types) ==
    {TraceRow(F, e, r) : <<e, r>> \in
        {x \in E \X R : /\ x[2].from_entity_id = x[1].id
                        /\ \E p \in Paths : F[p].id = x[1].file_id
                        /\ x[2].to_entity_id = entity_id
                        /\ x[2].relationship_type \in relationship_types}}

\* The lookup gave no row and the code went on to read its columns: a
\* TypeError leaves the tool.
NotFoundRaises(call) == [call EXCEPT !.raised = TRUE]

\* if not entity: return {"error": "... not found"}
NotFound(call) == [call EXCEPT !.error = TRUE]

\* "Find the target entity": LIMIT 1 among the matching rows, or the error
\* result when there is none.
TraceTarget ==
    /\ q.pc = "done"
    /\ \E target \in TraceTargets, direction \in TraceDirections,
          depth \in TraceDepths, relationship_types \in TraceKinds :
          LET found == {e \in entities : Matches(e, target)}
              call == [op |-> "trace_dependencies", target |-> target,
                       direction |-> direction, depth |-> depth,
                       relationship_types |-> relationship_types,
                       entity_id |-> None, error |-> FALSE, raised |-> FALSE,
                       outgoing |-> {}, incoming |-> {}, pc |-> "done"]
          IN IF found = {}
             THEN q' = NotFound(call)
             ELSE \E e \in found :
                    q' = [call EXCEPT
                            !.entity_id = e.id,
                            !.pc = IF direction \in {"outgoing", "both"}
                                   THEN "outgoing" ELSE "incoming"]
    /\ UNCHANGED <<disk, store, run, tasks, entity_cache, reports, outcome, last,
                   spent, fs>>

\* "Get outgoing dependencies"
TraceOutgoing ==
    /\ q.op = "trace_dependencies"
    /\ q.pc = "outgoing"
    /\ \E rows \in Limited(OutgoingRows(files, entities, relationships,
                                        q.entity_id, q.relationship_types),
                           TraceLimit) :
          q' = [q EXCEPT !.outgoing = rows,
                         !.pc = IF q.direction \in {"incoming", "both"}
                                THEN "incoming" ELSE "done"]
    /\ UNCHANGED <<disk, store, run, tasks, entity_cache, reports, outcome, last,
                   spent, fs>>

\* "Get incoming dependencies"
TraceIncoming ==
    /\ q.op = "trace_dependencies"
    /\ q.pc = "incoming"
    /\ \E rows \in Limited(IncomingRows(files, entities, relationships,
                                        q.entity_id, q.relationship_types),
                           TraceLimit) :
          q' = [q EXCEPT !.incoming = rows, !.pc = "done"]
    /\ UNCHANGED <<disk, store, run, tasks, entity_cache, reports, outcome, last,
                   spent, fs>>

(***************************************************************************)
(* search_code and get_context (src/server.py), and the four query tools   *)
(* against a store at rest, empty or not.                                  *)
(***************************************************************************)
\* One 'declaration' chunk per entity and one fallback chunk of file 2.
AskChunks(E) ==
    {[id |-> e.id, entity_id |-> e.id, file_id |-> e.file_id,
      chunk_type |-> "declaration", start_line |-> e.id, end_line |-> e.id,
      embedding |-> VectorWidth] : e \in E}
        \cup {[id |-> Cardinality(E) + 1, entity_id |-> None, file_id |-> 2,
               chunk_type |-> "mixed", start_line |-> 1, end_line |-> 100,
               embedding |-> VectorWidth]}

InitAsk ==
    /\ AtRest
    /\ q = NoOp
    /\ \/ /\ files = [p \in Paths |-> NoRow]
          /\ entities = {}
          /\ relationships = {}
          /\ chunks = {}
          /\ seqs = [file |-> 0, entity |-> 0, rel |-> 0, chunk |-> 0]
       \/ /\ files = IndexedFiles
          /\ entities = TraceEntities(1)
          /\ relationships = TraceRelationships(1, TRUE, FALSE)
          /\ chunks = AskChunks(TraceEntities(1))
          /\ seqs = [file |-> NumPaths, entity |-> 4, rel |-> 2, chunk |-> 5]

SearchQueries == {"base class", "zzz"}
SearchSizes == {1, 10}
SearchScopes == {"all", "functions", "classes", "files"}

\* The scope filter of search_code on a chunk and the entity LEFT JOINed to
\* it (NoEntity: the chunk has none).
NoEntity == [id |-> None, type |-> ""]

EntityOfChunk(E, c) ==
    IF c.entity_id \in Ids(E) THEN EntityOfId(E, c.entity_id) ELSE NoEntity

InScope(scope, c, e) ==
    CASE scope = "functions" -> e.type = "function"
      [] scope = "classes" -> e.type \in {"class", "struct"}
      [] scope = "files" -> c.entity_id = None
      [] OTHER -> TRUE

\* FROM code_chunks c JOIN files f ON c.file_id = f.id LEFT JOIN entities e
\* ON c.entity_id = e.id WHERE c.embedding IS NOT NULL {scope_filter}
SearchRows(F, E, C, scope) ==
    {c \in C : /\ \E p \in Paths : F[p].id = c.file_id
               /\ c.embedding # None
               /\ InScope(scope, c, EntityOfChunk(E, c))}

\* search_code: ORDER BY c.embedding <=> $1 LIMIT $2.  Which rows are the
\* nearest is the embedding model's affair: any max_results of them.
search_code ==
    /\ q.pc = "done"
    /\ \E query \in SearchQueries, max_results \in SearchSizes,
          scope \in SearchScopes :
          \E rows \in Limited(SearchRows(files, entities, chunks, scope),
                              max_results) :
             q' = [op |-> "search_code", pc |-> "done", query |-> query,
                   max_results |-> max_results, scope |-> scope,
                   raised |-> FALSE, results_found |-> Cardinality(rows),
                   results |-> Ids(rows)]
    /\ UNCHANGED <<disk, store, run, tasks, entity_cache, reports, outcome, last,
                   spent, fs>>

Components == {"Base", "Missing"}
DetailLevels == {"summary", "detailed", "comprehensive"}

\* FROM entities e JOIN files f ON e.file_id = f.id
\* WHERE e.qualified_name ILIKE '%component%', for whole identifiers.
ContextRows(F, E, component) ==
    {e \in E : /\ \E p \in Paths : F[p].id = e.file_id
               /\ \E n \in 1..Len(e.qualified_name) :
                     e.qualified_name[n] = component}

\* What follows the entities of get_context: their code, the related code,
\* or the end.
AfterContextCode(include_related) == IF include_related THEN "related" ELSE "done"

\* "Find entities matching the component"
GetContextEntities ==
    /\ q.pc = "done"
    /\ \E component \in Components, detail_level \in DetailLevels,
          include_related \in BOOLEAN :
          LET call == [op |-> "get_context", component |-> component,
                       detail_level |-> detail_level,
                       include_related |-> include_related,
                       error |-> FALSE, raised |-> FALSE, todo |-> {},
                       entities |-> {}, related_code |-> {}, pc |-> "done"]
          IN \E found \in Limited(ContextRows(files, entities, component),
                                  ContextLimit) :
                IF found = {}
                THEN q' = NotFound(call)
                ELSE q' = [call EXCEPT
                             !.todo = Ids(found),
                             !.pc = IF detail_level \in {"detailed", "comprehensive"}
                                    THEN "code"
                                    ELSE AfterContextCode(include_related)]
    /\ UNCHANGED <<disk, store, run, tasks, entity_cache, reports, outcome, last,
                   spent, fs>>

\* SELECT content FROM code_chunks WHERE entity_id = $1 LIMIT 1: any chunk of
\* the entity, None when it has none.
AnyCodeOf(C, entity_id) ==
    IF {c \in C : c.entity_id = entity_id} = {} THEN {None}
    ELSE Ids({c \in C : c.entity_id = entity_id})

\* "Get code" of the next entity of the list.
GetContextCode ==
    /\ q.op = "get_context"
    /\ q.pc = "code"
    /\ LET entity_id == CHOOSE id \in q.todo : \A other \in q.todo : id <= other
       IN \E code \in AnyCodeOf(chunks, entity_id) :
             q' = [q EXCEPT
                     !.todo = @ \ {entity_id},
                     !.entities = @ \cup {<<entity_id, code>>},
                     !.pc = IF q.todo = {entity_id}
                            THEN AfterContextCode(q.include_related) ELSE "code"]
    /\ UNCHANGED <<disk, store, run, tasks, entity_cache, reports, outcome, last,
                   spent, fs>>

\* "Get related code via semantic search".  The embedding is handed over as a
\* Python list for $1::vector, not as the text the other callers build; a
\* connection with no codec for the type refuses it, one with a codec runs
\* the query.
GetContextRelated ==
    /\ q.op = "get_context"
    /\ q.pc = "related"
    /\ \/ q' = [q EXCEPT !.raised = TRUE, !.pc = "done"]
       \/ \E rows \in Limited(SearchRows(files, entities, chunks, "all"),
                              RelatedLimit) :
             q' = [q EXCEPT !.related_code = Ids(rows), !.pc = "done"]
    /\ UNCHANGED <<disk, store, run, tasks, entity_cache, reports, outcome, last,
                   spent, fs>>

(***************************************************************************)
(* CppParser (src/parser.py) on a syntax tree, and the entity rows and     *)
(* parent links index_file makes of what it returns.                       *)
(***************************************************************************)
\* A node of the syntax tree: its tree-sitter type, the text of its "name"
\* field and the nodes of its body.
Node(type, name, children) == [type |-> type, name |-> name, children |-> children]

ScopeTypes == {"namespace_definition", "class_specifier", "struct_specifier"}
LeafTypes == {"function_definition", "enum_specifier"}

\* The definitions are named after how deep they sit: N1 { N2 { N3 } }, and
\* a function g2 may follow N2 inside N1.
LevelName(level) == "N" \o ToString(level)
SiblingName(level) == "g" \o ToString(level)

\* The node types _calculate_complexity counts.
ControlFlowTypes ==
    {"if_statement", "while_statement", "for_statement", "switch_statement",
     "case_statement", "catch_clause"}

\* The bodies of the functions: empty, or "for (...) { if (...) { } }".
FunctionBodies ==
    {<< >>,
     <<Node("for_statement", "", <<Node("if_statement", "", << >>)>>)>>}

RECURSIVE Definitions(_, _, _)
\* The definitions of at most depth nested scopes that may stand at a level,
\* inside a class or not (a namespace cannot stand inside a class).
Definitions(depth, level, inClass) ==
    IF depth = 0 THEN {}
    ELSE {Node("enum_specifier", LevelName(level), << >>)}
         \cup {Node("function_definition", LevelName(level), body)
                   : body \in FunctionBodies}
         \cup UNION {
             {Node(type, LevelName(level), << >>)}
             \cup UNION {
                 {Node(type, LevelName(level), <<d>>),
                  Node(type, LevelName(level),
                       <<d, Node("function_definition", SiblingName(level + 1), << >>)>>)}
                 : d \in Definitions(depth - 1, level + 1,
                                     type # "namespace_definition")}
             : type \in IF inClass THEN ScopeTypes \ {"namespace_definition"}
                        ELSE ScopeTypes}

\* The sources: one definition at file level, with what is nested in it.
SyntaxTrees ==
    {Node("translation_unit", "", <<d>>) : d \in Definitions(MaxDepth, 1, FALSE)}

\* _build_qualified_name: the namespaces, the last segment of current_class,
\* the name.  current_class = None is the empty name.
BuildQualifiedName(simple_name, current_namespace, current_class) ==
    current_namespace
        \o (IF current_class # << >> THEN <<current_class[Len(current_class)]>>
            ELSE << >>)
        \o <<simple_name>>

EntityTypeOf(node_type) ==
    CASE node_type = "class_specifier" -> "class"
      [] node_type = "struct_specifier" -> "struct"
      [] node_type = "function_definition" -> "function"
      [] OTHER -> "enum"

RECURSIVE CountControlFlow(_)
\* count_control_flow: the counted nodes in a subtree, its root included.
CountControlFlow(n) ==
    (IF n.type \in ControlFlowTypes THEN 1 ELSE 0)
        + (IF n.children = << >> THEN 0
           ELSE CountControlFlow(Head(n.children))
                + CountControlFlow([n EXCEPT !.type = "", !.children = Tail(@)]))

\* _calculate_complexity
CalculateComplexity(node) == 1 + CountControlFlow(node)

RECURSIVE ExtractEntities(_, _, _)
RECURSIVE ExtractChildren(_, _, _)
\* _extract_entities: the entities of a node, in the order they are appended.
ExtractEntities(node, current_namespace, current_class) ==
    IF node.type = "namespace_definition"
    THEN ExtractChildren(node.children, Append(current_namespace, node.name),
                         current_class)
    ELSE IF node.type \in {"class_specifier", "struct_specifier"}
    THEN LET qualified_name ==
                 BuildQualifiedName(node.name, current_namespace, current_class)
         IN <<[type |-> EntityTypeOf(node.type), simple_name |-> node.name,
               qualified_name |-> qualified_name, complexity_score |-> 0]>>
            \o ExtractChildren(node.children, current_namespace, qualified_name)
    ELSE IF node.type \in LeafTypes
    THEN <<[type |-> EntityTypeOf(node.type), simple_name |-> node.name,
            qualified_name |->
                BuildQualifiedName(node.name, current_namespace, current_class),
            complexity_score |-> IF node.type = "function_definition"
                                 THEN CalculateComplexity(node) ELSE 0]>>
    ELSE ExtractChildren(node.children, current_namespace, current_class)

\* for child in body.children: self._extract_entities(child, ...)
ExtractChildren(children, current_namespace, current_class) ==
    IF children = << >> THEN << >>
    ELSE ExtractEntities(Head(children), current_namespace, current_class)
         \o ExtractChildren(Tail(children), current_namespace, current_class)

\* parse_file: self.current_namespace = [], self.current_class = None, then
\* the walk from the root.
ParseTree(tree) == ExtractEntities(tree, << >>, << >>)

\* entity_map after the loop "Insert entities": a name met again keeps the
\* id of its last entity.
EntityMapOf(ents, first_id) ==
    [name \in {ents[k].qualified_name : k \in 1..Len(ents)} |->
        first_id - 1 + CHOOSE k \in 1..Len(ents) :
            /\ ents[k].qualified_name = name
            /\ \A j \in k + 1..Len(ents) : ents[j].qualified_name # name]

\* The rows index_file has written for the entities of one file when its
\* two loops are over: the INSERTs, then the parent UPDATEs.
RowsOfFile(ents, file_id, first_id) ==
    WithParents(
        [entity_map |-> EntityMapOf(ents, first_id),
         insE |-> {[id |-> first_id - 1 + k, file_id |-> file_id,
                    type |-> ents[k].type,
                    qualified_name |-> ents[k].qualified_name,
                    simple_name |-> ents[k].simple_name,
                    parent_id |-> None] : k \in 1..Len(ents)}])

(***************************************************************************)
(* _create_chunks (src/parser.py).  A source is its rows, as tree-sitter   *)
(* counts them: one per "\n".  A row is code, a "//" comment, blank, or    *)
(* code with a form feed in it ("formfeed"), at which str.splitlines       *)
(* breaks a line too.                                                      *)
(***************************************************************************)
RowKinds == {"code", "comment", "blank", "formfeed"}

\* Characters of a line of each kind.
CharsOf(text) ==
    CASE text = "code" -> 39
      [] text = "comment" -> 24
      [] OTHER -> 0

\* A line of content.splitlines(): where it comes from and what it holds.
Line(text, row, part) ==
    [text |-> text, row |-> row, part |-> part, chars |-> CharsOf(text)]

\* content.splitlines(): a row with a form feed gives two lines, any other
\* row one.
SplitLines(rows) ==
    LET breaks == {j \in 1..Len(rows) : rows[j] = "formfeed"}
        firstLine(k) == k + Cardinality({j \in breaks : j < k})
        rowOf(i) == i - Cardinality({j \in breaks : firstLine(j) < i})
    IN [i \in 1..Len(rows) + Cardinality(breaks) |->
           LET k == rowOf(i)
           IN Line(IF rows[k] = "formfeed" THEN "code" ELSE rows[k],
                   k, i - firstLine(k) + 1)]

\* lines[a - 1:b] of Python, which stops at the end of the list.
Slice(lines, a, b) ==
    SubSeq(lines, a, IF b < Len(lines) THEN b ELSE Len(lines))

RECURSIVE TakeChars(_, _)
\* "\n".join(lines)[:n], as lines again: the last one may be cut.
TakeChars(lines, n) ==
    IF lines = << >> \/ n < 0 THEN << >>
    ELSE IF Head(lines).chars <= n
    THEN <<Head(lines)>> \o TakeChars(Tail(lines), n - Head(lines).chars - 1)
    ELSE <<[Head(lines) EXCEPT !.chars = n]>>

\* The chunk_type of the chunk of an entity.
ChunkTypeOf(entity) ==
    IF entity.type = "function" /\ entity.is_definition THEN "implementation"
    ELSE IF entity.type = "function" THEN "declaration"
    ELSE IF entity.type \in {"class", "struct"} THEN "declaration"
    ELSE "mixed"

\* metadata of a chunk; a key the dict does not have is None / "".
Metadata(truncated, original_end, comment_for) ==
    [truncated |-> truncated, original_end |-> original_end,
     comment_for |-> comment_for]

\* The chunk of the code of an entity.
EntityChunk(entity, lines) ==
    LET entity_lines == Slice(lines, entity.start_line, entity.end_line)
    IN IF Len(entity_lines) > MaxEntityLines
       THEN [entity_name |-> entity.qualified_name,
             chunk_type |-> ChunkTypeOf(entity),
             content |-> SubSeq(entity_lines, 1, MaxEntityLines),
             start_line |-> entity.start_line,
             end_line |-> entity.start_line + MaxEntityLines,
             metadata |-> Metadata(TRUE, entity.end_line, << >>)]
       ELSE [entity_name |-> entity.qualified_name,
             chunk_type |-> ChunkTypeOf(entity),
             content |-> entity_lines,
             start_line |-> entity.start_line,
             end_line |-> entity.end_line,
             metadata |-> Metadata(FALSE, None, << >>)]

RECURSIVE CommentLines(_, _, _)
\* The loop backwards from the line before the entity: comment lines are
\* kept, blank ones skipped, anything else ends it.
CommentLines(lines, j, stop) ==
    IF j <= stop THEN << >>
    ELSE IF lines[j].text = "comment"
    THEN Append(CommentLines(lines, j - 1, stop), lines[j])
    ELSE IF lines[j].text = "blank" THEN CommentLines(lines, j - 1, stop)
    ELSE << >>

\* The comment_block chunk of an entity, if it gets one.
CommentChunks(entity, lines) ==
    LET stop == IF entity.start_line - CommentLookback + 1 > 0
                THEN entity.start_line - CommentLookback + 1 ELSE 0
        comment_lines == IF entity.start_line > 1
                         THEN CommentLines(lines, entity.start_line - 1, stop)
                         ELSE << >>
        entity_lines == Slice(lines, entity.start_line, entity.end_line)
    IN IF Len(comment_lines) > MinCommentLines
       THEN <<[entity_name |-> entity.qualified_name,
               chunk_type |-> "comment_block",
               content |-> comment_lines \o <<Line("blank", 0, 1)>>
                              \o TakeChars(entity_lines, SnippetChars),
               start_line |-> entity.start_line - Len(comment_lines),
               end_line |-> entity.start_line,
               metadata |-> Metadata(FALSE, None, entity.qualified_name)]>>
       ELSE << >>

RECURSIVE CreateChunksFrom(_, _, _)
CreateChunksFrom(ents, lines, k) ==
    IF k > Len(ents) THEN << >>
    ELSE <<EntityChunk(ents[k], lines)>> \o CommentChunks(ents[k], lines)
         \o CreateChunksFrom(ents, lines, k + 1)

\* _create_chunks(entities, content)
CreateChunksOf(ents, rows) == CreateChunksFrom(ents, SplitLines(rows), 1)

RECURSIVE SeqsUpTo(_, _)
\* The sequences of at most n elements of a set.
SeqsUpTo(S, n) ==
    IF n = 0 THEN {<< >>}
    ELSE SeqsUpTo(S, n - 1)
         \cup {Append(r, x) : r \in {r \in SeqsUpTo(S, n - 1) : Len(r) = n - 1},
                              x \in S}

\* The entities _create_chunks is tried on: one function, class or enum of
\* code rows, the last thing of its source.
EntityLengths ==
    {1, MaxEntityLines - 1, MaxEntityLines, MaxEntityLines + 1,
     MaxEntityLines + MaxOver}

EntityKinds ==
    {[type |-> "function", is_definition |-> TRUE],
     [type |-> "function", is_definition |-> FALSE],
     [type |-> "class", is_definition |-> FALSE],
     [type |-> "enum", is_definition |-> FALSE]}

InitChunks ==
    \E prefix \in SeqsUpTo(RowKinds, MaxPrefix), len \in EntityLengths,
       kind \in EntityKinds :
        q = [op |-> "create_chunks", pc |-> "new",
             rows |-> prefix \o [k \in 1..len |-> "code"],
             entities |-> <<[type |-> kind.type,
                             is_definition |-> kind.is_definition,
                             qualified_name |-> <<"f">>,
                             start_line |-> Len(prefix) + 1,
                             end_line |-> Len(prefix) + len]>>,
             chunks |-> << >>]

\* chunks = self._create_chunks(entities, content)
CreateChunks ==
    /\ q.op = "create_chunks"
    /\ q.pc = "new"
    /\ q' = [q EXCEPT !.chunks = CreateChunksOf(q.entities, q.rows),
                      !.pc = "done"]
    /\ UNCHANGED <<disk, store, run, tasks, entity_cache, reports, outcome, last,
                   spent, fs>>

\* The files index_file is followed on from the entities to the chunk rows:
\* a function f of one or two rows, then a one-row declaration, of f again
\* (an overload, or the declaration of the definition) or of g.
InitOverloads ==
    \E prefix \in SeqsUpTo(RowKinds \ {"formfeed"}, MaxPrefix), len \in 1..2,
       name \in {"f", "g"}, decl \in BOOLEAN :
        q = [op |-> "index_chunks", pc |-> "new",
             rows |-> prefix \o [k \in 1..len + 1 |-> "code"],
             entities |-> <<[type |-> "function", is_definition |-> TRUE,
                             qualified_name |-> <<"f">>,
                             start_line |-> Len(prefix) + 1,
                             end_line |-> Len(prefix) + len],
                            [type |-> "function", is_definition |-> decl,
                             qualified_name |-> <<name>>,
                             start_line |-> Len(prefix) + len + 1,
                             end_line |-> Len(prefix) + len + 1]>>,
             inserted |-> << >>, chunks |-> << >>]

\* index_file from the entity INSERTs to the chunk INSERTs: the entities get
\* the next ids in the order of the parser, entity_map keeps one id per
\* qualified_name, and _insert_chunk looks the name of the chunk up in it.
IndexChunks ==
    /\ q.op = "index_chunks"
    /\ q.pc = "new"
    /\ LET parsed == CreateChunksOf(q.entities, q.rows)
           entity_map == EntityMapOf(q.entities, seqs.entity + 1)
       IN q' = [q EXCEPT
                  !.inserted = [k \in 1..Len(q.entities) |->
                                  [id |-> seqs.entity + k,
                                   qualified_name |-> q.entities[k].qualified_name,
                                   start_line |-> q.entities[k].start_line,
                                   end_line |-> q.entities[k].end_line]],
                  !.chunks = [k \in 1..Len(parsed) |->
                                [entity_id |->
                                     IF parsed[k].entity_name \in DOMAIN entity_map
                                     THEN entity_map[parsed[k].entity_name]
                                     ELSE None,
                                 chunk_type |-> parsed[k].chunk_type,
                                 start_line |-> parsed[k].start_line,
                                 end_line |-> parsed[k].end_line]],
                  !.pc = "done"]
    /\ UNCHANGED <<disk, store, run, tasks, entity_cache, reports, outcome, last,
                   spent, fs>>

\* A class N1 of another file, indexed earlier in the run.
OtherFileEntity ==
    [id |-> 1, file_id |-> 2, type |-> "class", qualified_name |-> <<LevelName(1)>>,
     simple_name |-> LevelName(1), parent_id |-> None]

\* The state around a parser call: the store is empty, or the run has already
\* indexed another file with a class N1, which then is in entity_cache.
InitParse ==
    /\ disk = [p \in Paths |-> "cBase"]
    /\ run = [pc |-> "idle", entry |-> "", file_paths |-> << >>, i |-> 0, j |-> 1]
    /\ tasks = << >>
    /\ reports = << >>
    /\ outcome = [p \in Paths |-> "none"]
    /\ last = NoCall
    /\ spent = [calls |-> 0, faults |-> 0]
    /\ fs = NoQuery
    /\ relationships = {}
    /\ chunks = {}
    /\ \/ /\ files = [p \in Paths |-> NoRow]
          /\ entities = {}
          /\ entity_cache = NoMap
          /\ seqs = [file |-> 0, entity |-> 0, rel |-> 0, chunk |-> 0]
          /\ \/ \E tree \in SyntaxTrees :
                    q = [op |-> "parse_file", pc |-> "new", tree |-> tree,
                         entities |-> << >>, rows |-> {}]
             \/ InitChunks
             \/ InitOverloads
       \/ /\ files = [p \in Paths |->
                         IF p = 2 THEN [id |-> 2, content_hash |-> << >>,
                                        status |-> "indexed", last_indexed |-> TRUE]
                         ELSE NoRow]
          /\ entities = {OtherFileEntity}
          /\ entity_cache = [n \in {OtherFileEntity.qualified_name} |->
                                OtherFileEntity.id]
          /\ seqs = [file |-> 2, entity |-> 1, rel |-> 0, chunk |-> 0]
          /\ \E tree \in SyntaxTrees :
                q = [op |-> "parse_file", pc |-> "new", tree |-> tree,
                     entities |-> << >>, rows |-> {}]

\* parse_cpp_file(file_path, content)
ParseFile ==
    /\ q.op = "parse_file"
    /\ q.pc = "new"
    /\ q' = [q EXCEPT !.entities = ParseTree(q.tree), !.pc = "parsed"]
    /\ UNCHANGED <<disk, store, run, tasks, entity_cache, reports, outcome, last,
                   spent, fs>>

\* index_file on what the parser returned, up to the parent links.
IndexParsed ==
    /\ q.op = "parse_file"
    /\ q.pc = "parsed"
    /\ q' = [q EXCEPT !.rows = RowsOfFile(q.entities, 1, seqs.entity + 1),
                      !.pc = "done"]
    /\ UNCHANGED <<disk, store, run, tasks, entity_cache, reports, outcome, last,
                   spent, fs>>

(***************************************************************************)
(* _insert_relationship in the middle of a batch.  The task of derived.cpp *)
(* has inserted its entities, D = 1 and, when the file defines it too,     *)
(* M::Base = 2.  Another file defines a class of one of these names: its   *)
(* entity, 3, was committed by an earlier run, or by a task of this batch, *)
(* or is in the open transaction of a task of this batch; the cache holds, *)
(* for a name both tasks inserted, the id inserted last.  The store may    *)
(* also hold a class N::Base, 4, of an earlier run.                        *)
(***************************************************************************)
ClassEntity(id, file_id, qualified_name) ==
    [id |-> id, file_id |-> file_id, type |-> "class",
     qualified_name |-> qualified_name,
     simple_name |-> SimpleName(qualified_name), parent_id |-> None]

OtherWriters == {"nobody", "earlier_run", "open", "committed"}

MidBatch(ownBase, other, otherName, cached, extra) ==
    LET own == {ClassEntity(1, 2, <<"D">>)}
                  \cup (IF ownBase THEN {ClassEntity(2, 2, <<"M", "Base">>)} ELSE {})
        own_map == [n \in Names |->
                       IF n = <<"D">> THEN 1
                       ELSE IF n = <<"M", "Base">> /\ ownBase THEN 2 ELSE None]
        row == ClassEntity(3, 1, otherName)
        mine == NewTask(2, 2, Decode("cDerived"), FALSE)
        theirs == NewTask(1, 1, Decode("cBase"), FALSE)
        inBatch == other \in {"open", "committed"}
    IN /\ disk = [p \in Paths |-> IF p = 1 THEN "cBase" ELSE "cDerived"]
       /\ files = [p \in Paths |->
                     [id |-> p, content_hash |-> content_hash(Decode(disk[p])),
                      status |-> "indexing", last_indexed |-> FALSE]]
       /\ entities = (IF other \in {"earlier_run", "committed"} THEN {row} ELSE {})
                      \cup (IF extra THEN {ClassEntity(4, 1, <<"N", "Base">>)}
                            ELSE {})
       /\ relationships = {}
       /\ chunks = {}
       /\ seqs = [file |-> 2, entity |-> 4, rel |-> 0, chunk |-> 0]
       /\ run = [pc |-> "gather", entry |-> "initial_indexing",
                 file_paths |-> IF inBatch THEN <<2, 1>> ELSE <<2>>,
                 i |-> 0, j |-> IF inBatch THEN 2 ELSE 1]
       /\ tasks = <<[mine EXCEPT !.pc = "rel", !.entity_map = own_map,
                                 !.insE = own]>>
                  \o (IF inBatch
                      THEN <<[theirs EXCEPT
                                !.pc = IF other = "open" THEN "par" ELSE "done",
                                !.entity_map = [NoMap EXCEPT ![otherName] = 3],
                                !.insE = IF other = "open" THEN {row} ELSE {}]>>
                      ELSE << >>)
       /\ entity_cache =
              [n \in Names |->
                  IF inBatch /\ n = otherName /\ (cached \/ own_map[n] = None)
                  THEN 3 ELSE own_map[n]]
       /\ reports = << >>
       /\ outcome = [p \in Paths |-> "none"]
       /\ last = NoCall
       /\ spent = [calls |-> IF inBatch THEN 2 ELSE 1, faults |-> 0]
       /\ fs = NoQuery
       /\ q = NoOp

InitResolve ==
    \E ownBase \in BOOLEAN, other \in OtherWriters,
       otherName \in {<<"D">>, <<"M", "Base">>}, cached \in BOOLEAN,
       extra \in BOOLEAN :
        MidBatch(ownBase, other, otherName, cached, extra)

(***************************************************************************)
(* initial_indexing and indexing_status["is_indexing"] (src/server.py).    *)
(* Every initial_indexing is a task of the event loop, created by startup, *)
(* by POST /api/reindex or by POST /api/directories; the tasks run         *)
(* interleaved at their awaits and share the one indexing_status.          *)
(***************************************************************************)
Origins == {"startup", "trigger_reindex", "update_monitored_directories"}

\* startup() has returned: its task is created and has not run yet.
InitStatus ==
    /\ AtRest
    /\ files = [p \in Paths |-> NoRow]
    /\ entities = {}
    /\ relationships = {}
    /\ chunks = {}
    /\ seqs = [file |-> 0, entity |-> 0, rel |-> 0, chunk |-> 0]
    /\ q = [op |-> "status", is_indexing |-> FALSE,
            runs |-> <<[origin |-> "startup", pc |-> "created", i |-> 0, n |-> 0]>>]

\* asyncio.create_task(initial_indexing()) in one of the two endpoints.
create_task(origin) ==
    /\ q.op = "status"
    /\ Len(q.runs) < MaxRuns
    /\ q' = [q EXCEPT !.runs = Append(@, [origin |-> origin, pc |-> "created",
                                          i |-> 0, n |-> 0])]
    /\ UNCHANGED <<disk, store, run, tasks, entity_cache, reports, outcome, last,
                   spent, fs>>

\* The task runs to its first await: is_indexing = True; asyncio.sleep(1).
StartIndexing(r) ==
    /\ q.op = "status"
    /\ r \in DOMAIN q.runs
    /\ q.runs[r].pc = "created"
    /\ q' = [q EXCEPT !.is_indexing = TRUE, !.runs[r].pc = "sleep"]
    /\ UNCHANGED <<disk, store, run, tasks, entity_cache, reports, outcome, last,
                   spent, fs>>

\* After the sleep the files are listed: n batches.  Without files the loop
\* is empty and the function runs to its end, is_indexing = False.
ScanFiles(r) ==
    /\ q.op = "status"
    /\ r \in DOMAIN q.runs
    /\ q.runs[r].pc = "sleep"
    /\ \E n \in 0..MaxBatches :
          q' = IF n = 0
               THEN [q EXCEPT !.is_indexing = FALSE, !.runs[r].pc = "done"]
               ELSE [q EXCEPT !.runs[r].pc = "batch", !.runs[r].n = n]
    /\ UNCHANGED <<disk, store, run, tasks, entity_cache, reports, outcome, last,
                   spent, fs>>

\* await index_files(batch) returns; after the last batch,
\* is_indexing = False.
IndexBatch(r) ==
    /\ q.op = "status"
    /\ r \in DOMAIN q.runs
    /\ q.runs[r].pc = "batch"
    /\ q' = IF q.runs[r].i + 1 = q.runs[r].n
            THEN [q EXCEPT !.is_indexing = FALSE, !.runs[r].i = @ + 1,
                           !.runs[r].pc = "done"]
            ELSE [q EXCEPT !.runs[r].i = @ + 1]
    /\ UNCHANGED <<disk, store, run, tasks, entity_cache, reports, outcome, last,
                   spent, fs>>

\* await index_files(batch) raises: the task ends there.
IndexFilesRaises(r) ==
    /\ q.op = "status"
    /\ r \in DOMAIN q.runs
    /\ q.runs[r].pc = "batch"
    /\ q' = [q EXCEPT !.runs[r].pc = "raised"]
    /\ UNCHANGED <<disk, store, run, tasks, entity_cache, reports, outcome, last,
                   spent, fs>>

(***************************************************************************)
(* The store after a first run has indexed base.h (path 1), then           *)
(* derived.cpp (path 2): both committed, the inherits edge D -> M::Base    *)
(* resolved through the cache and stored.                                  *)
(***************************************************************************)
FirstRunContent(p) == IF p = 1 THEN "cBase" ELSE "cDerived"

RowsOfFirstRun(p) ==
    [entity |-> [id |-> p, file_id |-> p,
                 type |-> ParsedEntities(FirstRunContent(p))[1].type,
                 qualified_name |->
                     ParsedEntities(FirstRunContent(p))[1].qualified_name,
                 simple_name |->
                     SimpleName(ParsedEntities(FirstRunContent(p))[1].qualified_name),
                 parent_id |-> None],
     chunk |-> [id |-> p, entity_id |-> p, file_id |-> p,
                chunk_type |-> ParsedChunks(FirstRunContent(p))[1].chunk_type,
                start_line |-> ParsedChunks(FirstRunContent(p))[1].start_line,
                end_line |-> ParsedChunks(FirstRunContent(p))[1].end_line,
                embedding |-> VectorWidth]]

InitIndexed ==
    /\ disk = [p \in Paths |-> FirstRunContent(p)]
    /\ files = [p \in Paths |->
                  [id |-> p, content_hash |-> content_hash(Decode(disk[p])),
                   status |-> "indexed", last_indexed |-> TRUE]]
    /\ entities = {RowsOfFirstRun(p).entity : p \in Paths}
    /\ relationships =
           {[id |-> p - 1, from_entity_id |-> p, to_entity_id |-> 1,
             relationship_type |-> "inherits"] : p \in Paths \ {1}}
    /\ chunks = {RowsOfFirstRun(p).chunk : p \in Paths}
    /\ seqs = [file |-> NumPaths, entity |-> NumPaths, rel |-> NumPaths - 1,
               chunk |-> NumPaths]
    /\ run = [pc |-> "idle", entry |-> "", file_paths |-> << >>, i |-> 0, j |-> 1]
    /\ tasks = << >>
    /\ entity_cache = NoMap
    /\ reports = << >>
    /\ outcome = [p \in Paths |-> "none"]
    /\ last = NoCall
    /\ spent = [calls |-> 0, faults |-> 0]
    /\ fs = NoQuery
    /\ q = NoOp

(***************************************************************************)
(* Specifications.                                                         *)
(***************************************************************************)
IndexFile(t) ==
    \/ Parse(t)
    \/ DeleteOld(t)
    \/ InsertEntity(t)
    \/ ResolveParents(t)
    \/ InsertRelationship(t)
    \/ InsertChunk(t)
    \/ Commit(t)
    \/ FallbackChunk(t)
    \/ TaskFails(t)

BatchIndexFiles ==
    \/ ReadFails
    \/ CreateTask
    \/ UpsertRaises
    \/ FinishBatch
    \/ \E t \in TaskIds : IndexFile(t)

\* Everything but the queries: runs over any list of files, with the tasks of a
\* batch interleaved.
Next ==
    \/ EditFile
    \/ delete_directory_data
    \/ check_for_changes(PathLists)
    \/ initial_indexing(PathLists)
    \/ BatchIndexFiles

Spec == Init /\ [][Next]_vars

\* The runs over the files of any monitored directories, overlapping or not.
NextMonitored ==
    \/ check_for_changes(MonitoredLists)
    \/ initial_indexing(MonitoredLists)
    \/ BatchIndexFiles

SpecMonitored == Init /\ [][NextMonitored]_vars

\* The relationships of one file, from the middle of a batch.
NextResolve == \E t \in TaskIds : InsertRelationship(t)

SpecResolve == InitResolve /\ [][NextResolve]_vars

\* One index_file call at a time, nothing else writing to the store meanwhile.
NextSeq ==
    \/ EditFile
    \/ RunOver /\ delete_directory_data
    \/ check_for_changes(SinglePathLists)
    \/ initial_indexing(SinglePathLists)
    \/ BatchIndexFiles

SpecSeq == Init /\ [][NextSeq]_vars

\* The same, from a store that a first run has filled.
SpecReindex == InitIndexed /\ [][NextSeq]_vars

\* One index_file call at a time, with find_symbol queries in between.
NextQuery ==
    \/ EditFile
    \/ check_for_changes(SinglePathLists)
    \/ initial_indexing(SinglePathLists)
    \/ BatchIndexFiles
    \/ FindSymbolEntities
    \/ FindSymbolCode
    \/ FindSymbolUsages

SpecQuery == Init /\ [][NextQuery]_vars

\* trace_dependencies against a store at rest.
NextTrace ==
    \/ TraceTarget
    \/ TraceOutgoing
    \/ TraceIncoming

SpecTrace == InitTrace /\ [][NextTrace]_vars

\* The four query tools against a store at rest.
NextAsk ==
    \/ search_code
    \/ FindSymbolEntities
    \/ FindSymbolCode
    \/ FindSymbolUsages
    \/ TraceTarget
    \/ TraceOutgoing
    \/ TraceIncoming
    \/ GetContextEntities
    \/ GetContextCode
    \/ GetContextRelated

SpecAsk == InitAsk /\ [][NextAsk]_vars

\* The parser on one source, and the rows made of its entities.
NextParse ==
    \/ ParseFile
    \/ IndexParsed
    \/ CreateChunks
    \/ IndexChunks

SpecParse == InitParse /\ [][NextParse]_vars

\* The initial_indexing tasks of one server.
NextStatus ==
    \/ \E origin \in Origins \ {"startup"} : create_task(origin)
    \/ \E r \in 1..MaxRuns : StartIndexing(r)
    \/ \E r \in 1..MaxRuns : ScanFiles(r)
    \/ \E r \in 1..MaxRuns : IndexBatch(r)
    \/ \E r \in 1..MaxRuns : IndexFilesRaises(r)

SpecStatus == InitStatus /\ [][NextStatus]_vars


(***************************************************************************)
(* Properties of indexing one file (SpecSeq).                              *)
(***************************************************************************)

\* C1: an index_file call that fails part-way (on the parsed path or on the
\* fallback path) leaves the file's entities, relationships and chunks
\* exactly as they were when the call began.
C1_FailedCallLeavesFileAsBefore ==
    \A t \in TaskIds :
        tasks[t].pc = "failed" => FileSet(tasks[t].file_id) = tasks[t].pre

\* C2: once index_file has returned normally, the rows stored for the file
\* are exactly the ones this pass wrote: nothing of an earlier pass is left,
\* the chunks of an earlier fallback pass included.
C2_StoredIsWhatThisPassWrote ==
    \A t \in TaskIds :
        tasks[t].pc = "done" =>
            FileSet(tasks[t].file_id) =
                [entities |-> tasks[t].insE,
                 relationships |-> tasks[t].insR,
                 chunks |-> tasks[t].insC]

\* C3: indexing the same file with the same content a second time, nothing
\* else having written in between, leaves the same multiset of entities,
\* relationships and chunks (row ids aside) as the first time.
C3_SecondPassChangesNothing ==
    \A t \in TaskIds :
        (tasks[t].pc = "done" /\ tasks[t].again) =>
            NormFileSetOf(entities, relationships, chunks, tasks[t].file_id)
                = tasks[t].norm_pre

\* C9: after index_file returns for content the parser fails on, the file
\* has no entities, no relationships, and only the fallback chunks of this
\* pass, whatever was stored for it before.
C9_ParseFailureLeavesOnlyFallbackChunks ==
    \A t \in TaskIds :
        (tasks[t].pc = "done" /\ ~Parses(tasks[t].content.text)) =>
            /\ FileSet(tasks[t].file_id).entities = {}
            /\ FileSet(tasks[t].file_id).relationships = {}
            /\ FileSet(tasks[t].file_id).chunks = tasks[t].insC

(***************************************************************************)
(* Properties of indexing runs (Spec).                                     *)
(***************************************************************************)

\* C4: no entry point indexes a file whose stored content hash equals the
\* hash of what is on disk: index_file is never called for a file that has
\* been indexed and has not changed since.
C4_UnchangedFileIsSkipped ==
    \A t \in TaskIds :
        tasks[t].pc = "new" =>
            ~(tasks[t].unchanged /\ files[tasks[t].path].last_indexed)

\* C5: both endpoints of every stored relationship are stored entities, in
\* every state the store can be in.
C5_RelationshipEndpointsExist ==
    \A r \in relationships :
        /\ r.from_entity_id \in Ids(entities)
        /\ r.to_entity_id \in Ids(entities)

\* C5, its case: two files are indexed in one run, one of them has been
\* committed with an edge to an entity of the other.
C5_EdgeStored ==
    /\ relationships # {}
    /\ \E t \in TaskIds : tasks[t].pc = "done" /\ tasks[t].insR # {}

\* C6: a relationship whose 'to' name is in neither the file's entity map nor
\* the shared cache, and is the simple_name of no entity the transaction
\* sees, adds no relationships row.
C6_UnresolvedTargetWritesNothing ==
    [][\A t \in TaskIds :
          (/\ tasks[t].pc = "rel"
           /\ LET to == ParsedRelationships(tasks[t].content.text)[tasks[t].k].to_entity
              IN /\ Lookup(tasks[t].entity_map, to) = None
                 /\ Lookup(entity_cache, to) = None
                 /\ \A e \in VisibleEntities(t) : e.simple_name # SimpleName(to))
          => (t \in DOMAIN tasks' => tasks'[t].insR \subseteq tasks[t].insR)]_vars

\* C6, its case: a file whose class inherits from a class nobody has indexed
\* was indexed to the end, and the inheritance edge was dropped.
C6_EdgeDropped ==
    \E t \in TaskIds :
        /\ tasks[t].pc = "done"
        /\ tasks[t].content.text = "cDerived"
        /\ tasks[t].insE # {}
        /\ tasks[t].insR = {}

\* C7: a failure on one file of a batch, a failed upsert of its files row
\* included, stops none of the others: when the run is over every file of
\* the list has been read and either indexed or reported.
C7_OtherFilesStillIndexed ==
    run.pc \in {"returned", "raised"} =>
        \A n \in 1..Len(run.file_paths) : outcome[run.file_paths[n]] # "none"

\* C8: each "Error indexing" line names the file whose index_file call
\* failed, also when an earlier file of the batch could not be read.
C8_ReportNamesTheFailedFile ==
    \A n \in 1..Len(reports) : reports[n].named = reports[n].actual

(***************************************************************************)
(* Properties of find_symbol against concurrent indexing (SpecQuery).      *)
(***************************************************************************)

\* C10: while a file is being re-indexed, find_symbol answers with the code
\* and the usages of the entity it found either as they were before the
\* re-index or as they are after it, never with a mix or a half-emptied
\* entity.
C10_ReaderSeesOldOrNew ==
    (fs.pc = "done" /\ fs.entity_id # None) =>
        \/ /\ fs.code \in fs.first.code
           /\ fs.usages = fs.first.usages
        \/ /\ fs.final.exists
           /\ fs.code \in fs.final.code
           /\ fs.usages = fs.final.usages

(***************************************************************************)
(* Properties of the queries against a store at rest.                      *)
(***************************************************************************)

\* C11: trace_dependencies with direction "both" returns every edge of a
\* requested kind that leaves or enters the target, and nothing but such
\* edges, whatever depth was given.
C11_TraceBothIsTheUnion ==
    (/\ q.op = "trace_dependencies"
     /\ q.pc = "done"
     /\ q.direction = "both"
     /\ q.entity_id # None) =>
        /\ q.outgoing = OutgoingRows(files, entities, relationships,
                                     q.entity_id, q.relationship_types)
        /\ q.incoming = IncomingRows(files, entities, relationships,
                                     q.entity_id, q.relationship_types)

\* C12: search_code, find_symbol, trace_dependencies and get_context return
\* normally when nothing matches, with a result that says so; search_code
\* on a store without chunks returns zero results.
C12_NoMatchIsAResult ==
    /\ (q.op = "search_code"
        /\ SearchRows(files, entities, chunks, q.scope) = {}) =>
            (~q.raised /\ q.results_found = 0 /\ q.results = {})
    /\ (q.op = "trace_dependencies" /\ q.pc = "done"
        /\ \A e \in entities : ~Matches(e, q.target)) =>
            (~q.raised /\ q.error)
    /\ (q.op = "get_context" /\ q.pc = "done"
        /\ ContextRows(files, entities, q.component) = {}) =>
            (~q.raised /\ q.error)
    /\ (fs.pc = "done" /\ fs.symbol # ""
        /\ \A e \in entities : ~Matches(e, fs.symbol)) =>
            fs.entity_id = None

\* C12, its case: on the empty store a search_code and a find_symbol have
\* both come back with nothing found.
C12_NothingFound ==
    /\ entities = {}
    /\ chunks = {}
    /\ q.op = "search_code"
    /\ q.results_found = 0
    /\ fs.pc = "done"
    /\ fs.symbol # ""
    /\ fs.entity_id = None

(***************************************************************************)
(* Properties of the parser (SpecParse).                                   *)
(***************************************************************************)

\* C13: the qualified_name of every extracted entity is its lexical nesting
\* path: the names of all the namespaces, classes and structs around it,
\* outermost first, then its own name.
C13_QualifiedNameIsLexicalPath ==
    LET RECURSIVE LexicalPaths(_, _)
        \* The paths of the class, struct, function and enum definitions
        \* under a node, in source order.
        LexicalPaths(nodes, path) ==
            IF nodes = << >> THEN << >>
            ELSE LET n == Head(nodes)
                     here == IF n.type \in ScopeTypes \cup LeafTypes
                             THEN Append(path, n.name) ELSE path
                 IN (IF n.type \in (ScopeTypes \cup LeafTypes)
                                     \ {"namespace_definition"}
                     THEN <<here>> ELSE << >>)
                    \o LexicalPaths(n.children, here)
                    \o LexicalPaths(Tail(nodes), path)
    IN (q.op = "parse_file" /\ q.pc # "new") =>
           [k \in 1..Len(q.entities) |-> q.entities[k].qualified_name]
               = LexicalPaths(<<q.tree>>, << >>)

\* C14: every namespace, class and struct definition has an entity row, and
\* the parent_id of every nested entity is the id of the row of the scope
\* right around it.
C14_ScopesAreEntitiesWithParents ==
    LET RECURSIVE LexicalScopes(_, _)
        \* The paths of all the definitions under a node.
        LexicalScopes(nodes, path) ==
            IF nodes = << >> THEN {}
            ELSE LET n == Head(nodes)
                     here == IF n.type \in ScopeTypes \cup LeafTypes
                             THEN Append(path, n.name) ELSE path
                 IN (IF n.type \in ScopeTypes \cup LeafTypes THEN {here} ELSE {})
                    \cup LexicalScopes(n.children, here)
                    \cup LexicalScopes(Tail(nodes), path)
    IN (q.op = "parse_file" /\ q.pc = "done") =>
           \A path \in LexicalScopes(<<q.tree>>, << >>) :
               \E row \in q.rows :
                   /\ row.qualified_name = path
                   /\ Len(path) > 1 =>
                        \E parent \in q.rows :
                            /\ parent.id = row.parent_id
                            /\ parent.qualified_name = ParentName(path)

\* C15: an entity of more than 100 lines gets exactly one chunk of its code;
\* the content of that chunk is the first 100 lines of the entity, and its
\* metadata has truncated = true and original_end = the end line of the entity.
C15_LongEntityIsOneTruncatedChunk ==
    (q.op = "create_chunks" /\ q.pc = "done") =>
        LET entity == q.entities[1]
            first == entity.start_line
            ofCode == {k \in 1..Len(q.chunks) :
                          q.chunks[k].chunk_type # "comment_block"}
        IN entity.end_line - first + 1 > MaxEntityLines =>
               /\ Cardinality(ofCode) = 1
               /\ \A k \in ofCode :
                    /\ Len(q.chunks[k].content) = MaxEntityLines
                    /\ \A i \in 1..MaxEntityLines :
                           q.chunks[k].content[i].row = first + i - 1
                    /\ q.chunks[k].metadata.truncated
                    /\ q.chunks[k].metadata.original_end = entity.end_line

(***************************************************************************)
(* Properties of the indexing runs, continued (Spec).                      *)
(***************************************************************************)

\* C16: every chunk row, committed or written by a transaction in progress,
\* has an embedding of the width of the column, whatever the embedding model
\* returned or raised during the passes so far.
C16_StoredEmbeddingsHaveStoreWidth ==
    /\ \A c \in chunks : c.embedding = VectorWidth
    /\ \A t \in DOMAIN tasks : \A c \in tasks[t].insC : c.embedding = VectorWidth

\* A pass stored a chunk and then got a vector of another width back.
C16_WrongWidthAfterStoredChunk ==
    \E t \in DOMAIN tasks :
        /\ tasks[t].error = "dimension"
        /\ \E c \in chunks : c.file_id = tasks[t].file_id

\* C18: when _insert_relationship resolves an endpoint through entity_cache
\* (the name is not in the task's own map), the id it gets was not written by
\* another task whose transaction is still open or was rolled back.
C18_CacheGivesNoUncommittedId ==
    [][\A t \in TaskIds :
        (tasks[t].pc = "rel" /\ InsertRelationship(t)) =>
            LET rel == ParsedRelationships(tasks[t].content.text)[tasks[t].k]
                viaCache == {name \in {rel.from_entity, rel.to_entity} :
                                /\ Lookup(tasks[t].entity_map, name) = None
                                /\ Lookup(entity_cache, name) # None}
            IN \A name \in viaCache :
                   ~ \E u \in TaskIds \ {t} :
                        /\ InTx(u) \/ tasks[u].pc = "failed"
                        /\ \E n \in DOMAIN tasks[u].entity_map :
                               tasks[u].entity_map[n] = entity_cache[name]]_vars

C17_NoTwoTasksOnOneFile ==
    \A t \in TaskIds : \A u \in TaskIds \ {t} :
        (/\ tasks[t].pc \notin {"new", "done", "failed"}
         /\ tasks[u].pc \notin {"new", "done", "failed"})
            => tasks[t].path # tasks[u].path

(***************************************************************************)
(* Properties of _insert_relationship (SpecResolve).                       *)
(***************************************************************************)

\* C20: the ends of a relationships row are resolved in this order: a name in
\* the file's own map gives the file's own id; the cache is asked only for a
\* name the map does not have; the store is searched by trailing identifier
\* only for the 'to' end, and only when map and cache both miss.
C20_MapThenCacheThenStore ==
    [][\A t \in TaskIds :
        (tasks[t].pc = "rel" /\ InsertRelationship(t)) =>
            LET rel == ParsedRelationships(tasks[t].content.text)[tasks[t].k]
                map == tasks[t].entity_map
                inMap(n) == n \in DOMAIN map /\ map[n] # None
                inCache(n) == n \in DOMAIN entity_cache /\ entity_cache[n] # None
                seen == {e \in entities : e.id \notin tasks[t].delE}
                            \cup tasks[t].insE
            IN \A r \in tasks'[t].insR \ tasks[t].insR :
                   /\ inMap(rel.from_entity) => r.from_entity_id = map[rel.from_entity]
                   /\ ~inMap(rel.from_entity) =>
                          /\ inCache(rel.from_entity)
                          /\ r.from_entity_id = entity_cache[rel.from_entity]
                   /\ inMap(rel.to_entity) => r.to_entity_id = map[rel.to_entity]
                   /\ (~inMap(rel.to_entity) /\ inCache(rel.to_entity)) =>
                          r.to_entity_id = entity_cache[rel.to_entity]
                   /\ (~inMap(rel.to_entity) /\ ~inCache(rel.to_entity)) =>
                          \E e \in seen :
                              /\ e.id = r.to_entity_id
                              /\ e.simple_name = SimpleName(rel.to_entity)]_vars

\* A row was written with the file's own id for a name that the cache maps
\* to the entity of another file.
C20_OwnIdDespiteCache ==
    \E t \in TaskIds : \E r \in tasks[t].insR :
        /\ r.to_entity_id = tasks[t].entity_map[<<"M", "Base">>]
        /\ entity_cache[<<"M", "Base">>] \notin {None, r.to_entity_id}
        /\ entity_cache[<<"M", "Base">>] \in Ids(entities)

\* C21: a row with a parent_id has its parent among the rows the same
\* index_file pass wrote for the same file, and the parent's qualified_name
\* is the row's own without its last segment.
C21_ParentIsOwnEnclosingName ==
    (q.op = "parse_file" /\ q.pc = "done") =>
        \A row \in q.rows :
            row.parent_id # None =>
                \E parent \in q.rows :
                    /\ parent.id = row.parent_id
                    /\ parent.file_id = row.file_id
                    /\ parent.qualified_name = ParentName(row.qualified_name)

\* A class in a namespace N1 was indexed without a parent while the store and
\* the cache hold a class N1 of another file, and a member of that class got
\* the class as its parent.
C21_ParentSetBesideForeignName ==
    /\ q.op = "parse_file" /\ q.pc = "done"
    /\ OtherFileEntity \in entities
    /\ \E row \in q.rows :
           /\ row.parent_id = None
           /\ ParentName(row.qualified_name) = OtherFileEntity.qualified_name
           /\ \E child \in q.rows : child.parent_id = row.id

\* C22: the complexity_score of every extracted entity, class, struct,
\* function or enum, is 1 plus the number of if/for/while/switch/case/catch
\* nodes in the subtree of its definition.
C22_ComplexityIsOnePlusControlFlow ==
    LET RECURSIVE Counted(_)
        \* The counted nodes among some nodes and below them.
        Counted(nodes) ==
            IF nodes = << >> THEN 0
            ELSE (IF Head(nodes).type \in ControlFlowTypes THEN 1 ELSE 0)
                 + Counted(Head(nodes).children) + Counted(Tail(nodes))
        RECURSIVE Expected(_)
        \* The scores of the class, struct, function and enum definitions
        \* under some nodes, in source order.
        Expected(nodes) ==
            IF nodes = << >> THEN << >>
            ELSE LET n == Head(nodes)
                 IN (IF n.type \in (ScopeTypes \cup LeafTypes)
                                     \ {"namespace_definition"}
                     THEN <<1 + Counted(<<n>>)>> ELSE << >>)
                    \o (IF n.type = "function_definition" THEN << >>
                        ELSE Expected(n.children))
                    \o Expected(Tail(nodes))
    IN (q.op = "parse_file" /\ q.pc # "new") =>
           [k \in 1..Len(q.entities) |-> q.entities[k].complexity_score]
               = Expected(<<q.tree>>)

\* C24: _create_chunks gives an entity a comment_block chunk exactly when
\* more than two comment or blank lines in a row stand right before it, the
\* lines being counted upwards from the entity to the first line that is
\* neither, over 20 lines at most.
C24_CommentBlockIffThreeLinesBefore ==
    LET RECURSIVE RunBefore(_, _)
        \* The comment or blank rows in a row that end at row j, at most n.
        RunBefore(j, n) ==
            IF j < 1 \/ n = 0 \/ q.rows[j] \notin {"comment", "blank"} THEN 0
            ELSE 1 + RunBefore(j - 1, n - 1)
    IN (q.op = "create_chunks" /\ q.pc = "done") =>
           ((\E k \in 1..Len(q.chunks) : q.chunks[k].chunk_type = "comment_block")
               <=> RunBefore(q.entities[1].start_line - 1, 20) > 2)

\* C28: after index_file, the entity_id of a chunk of an entity's code is
\* the id of the entity the chunk was cut from, the one whose lines it
\* starts at, also when two entities of the file have one qualified_name.
C28_ChunkLinkedToItsOwnEntity ==
    (q.op = "index_chunks" /\ q.pc = "done") =>
        \A k \in 1..Len(q.chunks) :
            q.chunks[k].chunk_type # "comment_block" =>
                \E e \in 1..Len(q.inserted) :
                    /\ q.inserted[e].id = q.chunks[k].entity_id
                    /\ q.inserted[e].start_line = q.chunks[k].start_line

\* C29: the line range of every chunk of an entity's code that
\* _create_chunks returns has as many lines as the content of the chunk,
\* truncated or not.
C29_LineRangeMatchesContent ==
    (q.op = "create_chunks" /\ q.pc = "done") =>
        \A k \in 1..Len(q.chunks) :
            q.chunks[k].chunk_type # "comment_block" =>
                q.chunks[k].end_line - q.chunks[k].start_line + 1
                    = Len(q.chunks[k].content)

(***************************************************************************)
(* Properties of single index_file calls, continued (SpecSeq).             *)
(***************************************************************************)

\* C23: a fallback pass that ran to its end has written, once each and as
\* 'mixed' chunks, exactly the windows of 50 characters or more among those
\* that start at lines 1, 81, 161, ... and hold up to 100 lines, each with
\* its first and last line number.
C23_FallbackWindowsStoredOnce ==
    \A t \in TaskIds :
        (tasks[t].pc = "done" /\ ~Parses(tasks[t].content.text)) =>
            LET c == tasks[t].content.text
                n == NumLines(c)
                first(k) == 1 + k * 80
                final(k) == IF first(k) + 99 <= n THEN first(k) + 99 ELSE n
                chars(k) == (final(k) - first(k) + 1) * LineChars(c)
                                + (final(k) - first(k))
                kept == {k \in 0..((n - 1) \div 80) : chars(k) >= 50}
            IN /\ {<<row.start_line, row.end_line>> : row \in tasks[t].insC}
                      = {<<first(k), final(k)>> : k \in kept}
               /\ Cardinality(tasks[t].insC) = Cardinality(kept)
               /\ \A row \in tasks[t].insC :
                      row.chunk_type = "mixed" /\ row \in chunks

\* A file of 170 short lines went down the fallback path to the end: two
\* windows stored, the third, of 10 lines, skipped.
C23_ShortLastWindowSkipped ==
    \E t \in TaskIds :
        /\ tasks[t].pc = "done"
        /\ ~Parses(tasks[t].content.text)
        /\ NumLines(tasks[t].content.text) > 160
        /\ Cardinality(tasks[t].insC) = 2

(***************************************************************************)
(* Properties of index_file calls on an indexed store (SpecReindex).       *)
(***************************************************************************)

\* C25: a step of the index_file call of a file leaves as they are, for
\* every other file, its entities, its chunks and the relationships that
\* start at its entities, those that end at an entity of the indexed file
\* included.
C25_OtherFilesKeepTheirRows ==
    [][\A t \in TaskIds :
          (t \in DOMAIN tasks' /\ tasks'[t] # tasks[t]) =>
              \A p \in Paths :
                  files[p].id \notin {None, tasks[t].file_id} =>
                      FileSetOf(entities', relationships', chunks', files[p].id)
                          = FileSet(files[p].id)]_vars

(***************************************************************************)
(* Properties of whole runs (SpecSeq).                                     *)
(***************************************************************************)

\* C26: between runs, a readable file whose last index_file attempt failed
\* is one that check_for_changes selects: its stored content_hash is not the
\* hash of the content on disk.
C26_FailedFileIsSelectedAgain ==
    \A p \in Paths :
        (RunOver /\ outcome[p] = "index_failed" /\ disk[p] # Unreadable)
            => IsChanged(p)

\* C27: when batch_index_files returns, every file whose index_file call
\* returned without raising has status 'indexed' and a last_indexed time.
C27_ReturnedFilesAreIndexed ==
    [][(run.pc = "gather" /\ run'.pc = "returned") =>
          \A t \in TaskIds :
              tasks[t].pc = "done" =>
                  /\ files'[tasks[t].path].status = "indexed"
                  /\ files'[tasks[t].path].last_indexed]_vars

(***************************************************************************)
(* Properties of the indexing status (SpecStatus).                         *)
(***************************************************************************)

\* C30: indexing_status["is_indexing"] is True in every state in which an
\* initial_indexing task has begun and has not ended, whichever of startup,
\* /api/reindex and the directories update created the tasks.
C30_IsIndexingWhileARunIsInProgress ==
    q.op = "status" =>
        ((\E r \in DOMAIN q.runs : q.runs[r].pc \in {"sleep", "batch"})
            => q.is_indexing)

====
